---- MODULE Spec2Model ----
(***************************************************************************)
(* A model of the MCP Sail Operator server's tool handlers.                *)
(*                                                                         *)
(* Every handler is a request/response function of its arguments and of    *)
(* what the cluster client returns.  The server is idle until a request    *)
(* arrives; the handler then runs to completion, and the state records     *)
(* which handler ran, the arguments it got, the calls it issued to the     *)
(* cluster client, what the client answered and the result it returned;    *)
(* once the result is handed to the transport nothing of the request is    *)
(* kept and the server is idle again.  The cluster's answers are inputs,   *)
(* drawn from bounded sets of cluster objects.                             *)
(***************************************************************************)
EXTENDS FiniteSets, Integers, Sequences, TLC

VARIABLES
    op,        \* the handler whose result is being returned ("none" when idle)
    args,      \* the arguments of that invocation
    calls,     \* the calls it issued to the cluster client, in order
    response,  \* what the cluster client answered
    result,    \* the result the handler returned
    stream,    \* the log stream a running GetPodLogs reads from, and its context
    earlier    \* how the session's previous invocation ended ("none" before the first)

vars == <<op, args, calls, response, result, stream, earlier>>

(***************************************************************************)
(* Bounds of the model.                                                    *)
(***************************************************************************)
\* instances of one custom-resource kind returned by one list call
MaxItems == 2
\* containers, and container statuses, of one analysed pod
MaxContainers == 2
\* pods returned by one pod list call of the mesh analysis
MaxPods == 2
\* objects returned by one list call of a resource listing
MaxObjects == 2

\* no log stream is open
NoStream == [phase |-> "none", read |-> <<>>, end |-> ""]

(***************************************************************************)
(* Sequence helpers.                                                       *)
(***************************************************************************)
\* all sequences over S of length at most n
SeqsUpTo(S, n) == UNION {[1..k -> S] : k \in 0..n}

\* the number of TRUE entries of a sequence of booleans
CountTrue(flags) == Cardinality({i \in DOMAIN flags : flags[i]})

(***************************************************************************)
(* The cluster client: errors and call records.                            *)
(***************************************************************************)
NoError == ""
\* errors a list call can fail with; "NotFound" is the one errors.IsNotFound
\* recognises, the others stand for permission and transport failures
ListErrors == {"NotFound", "Forbidden", "Timeout"}

IsNotFound(err) == err = "NotFound"

\* a list call on a resource: namespace "" is the cluster-wide list
ListCall(resource, namespace, selector) ==
    [verb |-> "list", resource |-> resource, namespace |-> namespace,
     selector |-> selector]

(***************************************************************************)
(* Sail Operator custom resources as unstructured objects.                 *)
(*                                                                         *)
(* status.found: the object has a status block that is a map;              *)
(* status.condsFound: status.conditions is present and is a list;          *)
(* a condition entry has isMap (entries that are no maps are skipped) and  *)
(* its type, status and reason, "" when the key is missing or no string;   *)
(* status.stateIsString: status.state is present and is a string.          *)
(***************************************************************************)
CondTypes == {"Ready", "Reconciled", "DependenciesHealthy", "Progressing"}
CondStatuses == {"True", "False", "Unknown", ""}

Condition(t, s, r) == [isMap |-> TRUE, type |-> t, status |-> s, reason |-> r]

Status(condsFound, conds, stateIsString, state) ==
    [found |-> TRUE, condsFound |-> condsFound, conds |-> conds,
     stateIsString |-> stateIsString, state |-> state]

NoStatus ==
    [found |-> FALSE, condsFound |-> FALSE, conds |-> <<>>,
     stateIsString |-> FALSE, state |-> ""]

Resource(name, namespace, status) ==
    [name |-> name, namespace |-> namespace, status |-> status]

(***************************************************************************)
(* analyzeResourceHealth                                                   *)
(***************************************************************************)
Issue(text, subject, detail) ==
    [text |-> text, subject |-> subject, detail |-> detail]

\* resourceId: "namespace/name", or the name alone for a cluster-scoped object
ResourceId(resource) ==
    IF resource.namespace # ""
    THEN [namespace |-> resource.namespace, name |-> resource.name]
    ELSE [namespace |-> "", name |-> resource.name]

\* the issues one condition entry adds (the three critical condition types)
CriticalIssues_FalseOnly(id, c) ==
    (IF c.type = "Ready" /\ c.status = "False"
     THEN <<Issue("is not ready", id, c.reason)>> ELSE <<>>)
    \o (IF c.type = "Reconciled" /\ c.status = "False"
        THEN <<Issue("reconciliation failed", id, c.reason)>> ELSE <<>>)
    \o (IF c.type = "DependenciesHealthy" /\ c.status = "False"
        THEN <<Issue("has unhealthy dependencies", id, c.reason)>> ELSE <<>>)

CriticalIssues(id, c) ==
    (IF c.type = "Ready" /\ c.status # "True"
     THEN <<Issue("is not ready", id, c.reason)>> ELSE <<>>)
    \o (IF c.type = "Reconciled" /\ c.status # "True"
        THEN <<Issue("reconciliation failed", id, c.reason)>> ELSE <<>>)
    \o (IF c.type = "DependenciesHealthy" /\ c.status # "True"
        THEN <<Issue("has unhealthy dependencies", id, c.reason)>> ELSE <<>>)

RECURSIVE ConditionIssues(_, _)
ConditionIssues(id, conds) ==
    IF conds = <<>> THEN <<>>
    ELSE (IF Head(conds).isMap THEN CriticalIssues(id, Head(conds)) ELSE <<>>)
         \o ConditionIssues(id, Tail(conds))

IsMapEntry(c) == c.isMap

ParsedCondition(c) == [type |-> c.type, status |-> c.status, reason |-> c.reason]

\* the condition check of analyzeResourceHealth: the condition entries it
\* walks are those of status.conditions when that is found, none otherwise
WalkedConditions(resource) ==
    IF resource.status.found /\ resource.status.condsFound
    THEN resource.status.conds ELSE <<>>

\* the state check of analyzeResourceHealth
StateIssues(id, resource) ==
    IF resource.status.found /\ resource.status.stateIsString
       /\ resource.status.state # "Healthy"
    THEN <<Issue("state is", id, resource.status.state)>>
    ELSE <<>>

analyzeResourceHealth(resource) ==
    LET id == ResourceId(resource)
        walked == WalkedConditions(resource)
        maps == SelectSeq(walked, IsMapEntry)
        condIssues == ConditionIssues(id, walked)
        stateIssues == StateIssues(id, resource)
    IN  [isHealthy |-> condIssues = <<>> /\ stateIssues = <<>>,
         issues |-> condIssues \o stateIssues,
         conditions |-> [i \in DOMAIN maps |-> ParsedCondition(maps[i])]]

(***************************************************************************)
(* checkComponentHealth                                                    *)
(***************************************************************************)
Reason(text, healthy, total) == [text |-> text, healthy |-> healthy, total |-> total]

HealthCheckResult(component, status, reason, issues, conditions) ==
    [Component |-> component, Status |-> status, Reason |-> reason,
     Issues |-> issues, Conditions |-> conditions]

AllIssues_FirstOnly(items) ==
    IF items = <<>> THEN <<>> ELSE analyzeResourceHealth(Head(items)).issues

RECURSIVE AllIssues(_)
AllIssues(items) ==
    IF items = <<>> THEN <<>>
    ELSE analyzeResourceHealth(Head(items)).issues \o AllIssues(Tail(items))

RECURSIVE AllConditions(_)
AllConditions(items) ==
    IF items = <<>> THEN <<>>
    ELSE analyzeResourceHealth(Head(items)).conditions \o AllConditions(Tail(items))

IsHealthyResource(resource) == analyzeResourceHealth(resource).isHealthy

\* the status a kind gets when its list call failed with err
StatusOnListError_AlwaysError(err) == "Error"

StatusOnListError(err) == IF IsNotFound(err) THEN "NotFound" ELSE "Error"

\* the kind's status from the two counters, for a non-empty list
ComponentStatus_AnyHealthy(healthyResources, totalResources) ==
    IF healthyResources > 0 THEN "Healthy" ELSE "Unhealthy"

ComponentStatus(healthyResources, totalResources) ==
    IF healthyResources = totalResources THEN "Healthy"
    ELSE IF healthyResources > 0 THEN "Degraded"
    ELSE "Unhealthy"

\* resp is the answer to the list call: [err, items]
checkComponentHealth(componentName, resp) ==
    IF resp.err # NoError
    THEN IF IsNotFound(resp.err)
         THEN HealthCheckResult(componentName, StatusOnListError(resp.err),
                  Reason("CRD not installed", 0, 0),
                  <<Issue("CRD is not installed or not accessible", componentName, "")>>,
                  <<>>)
         ELSE HealthCheckResult(componentName, StatusOnListError(resp.err),
                  Reason("Query failed", 0, 0),
                  <<Issue("Failed to query resources", componentName, resp.err)>>,
                  <<>>)
    ELSE IF Len(resp.items) = 0
    THEN HealthCheckResult(componentName, "NotInstalled",
             Reason("No resources found", 0, 0),
             <<Issue("No resources are installed", componentName, "")>>,
             <<>>)
    ELSE LET totalResources == Len(resp.items)
             healthyResources == CountTrue([i \in DOMAIN resp.items |-> IsHealthyResource(resp.items[i])])
             status == ComponentStatus(healthyResources, totalResources)
         IN  HealthCheckResult(componentName, status,
                 IF status = "Healthy"
                 THEN Reason("All resources healthy", totalResources, totalResources)
                 ELSE Reason("resources healthy", healthyResources, totalResources),
                 IF status = "Healthy" THEN <<>> ELSE AllIssues(resp.items),
                 AllConditions(resp.items))

(***************************************************************************)
(* CheckSailOperatorHealth                                                 *)
(***************************************************************************)
\* componentChecks: the four kinds and the resource each is listed as
Components == {"Istio", "IstioRevision", "IstioCNI", "ZTunnel"}

componentChecks ==
    [c \in Components |->
        CASE c = "Istio" -> [Group |-> "sailoperator.io", Version |-> "v1", Resource |-> "istios"]
          [] c = "IstioRevision" -> [Group |-> "sailoperator.io", Version |-> "v1", Resource |-> "istiorevisions"]
          [] c = "IstioCNI" -> [Group |-> "sailoperator.io", Version |-> "v1", Resource |-> "istiocnis"]
          [] c = "ZTunnel" -> [Group |-> "sailoperator.io", Version |-> "v1alpha1", Resource |-> "ztunnels"]]

\* the orders in which a range over the componentChecks map can visit the kinds
IterationOrders ==
    {o \in [1..Cardinality(Components) -> Components] :
        \A i, j \in DOMAIN o : i # j => o[i] # o[j]}

IsHealthyComponent(component) == component.Status = "Healthy"

\* overallHealth from the two counters
OverallHealth_NoUnhealthy(healthyCount, totalCount) ==
    IF healthyCount < totalCount THEN "Degraded" ELSE "Healthy"

OverallHealth(healthyCount, totalCount) ==
    IF healthyCount = 0 THEN "Unhealthy"
    ELSE IF healthyCount < totalCount THEN "Degraded"
    ELSE "Healthy"

\* generateHealthSummary: the headline and the components it lists, each
\* with its reason and the issues printed for it
HasIssuesToReport(component) == component.Status # "Healthy"

IsCritical(component) == component.Status \in {"Unhealthy", "Error"}

SummaryLineDegraded(component) ==
    [Component |-> component.Component, Reason |-> component.Reason,
     Issues |-> SubSeq(component.Issues, 1, IF Len(component.Issues) > 0 THEN 1 ELSE 0)]

SummaryLineCritical(component) ==
    [Component |-> component.Component, Reason |-> component.Reason,
     Issues |-> component.Issues]

generateHealthSummary(components, overallHealth) ==
    IF overallHealth = "Healthy"
    THEN [headline |-> "all healthy", lines |-> <<>>]
    ELSE IF overallHealth = "Degraded"
    THEN LET listed == SelectSeq(components, HasIssuesToReport)
         IN  [headline |-> "some components have issues",
              lines |-> [i \in DOMAIN listed |-> SummaryLineDegraded(listed[i])]]
    ELSE LET listed == SelectSeq(components, IsCritical)
         IN  [headline |-> "significant issues",
              lines |-> [i \in DOMAIN listed |-> SummaryLineCritical(listed[i])]]

\* formatComponentHealth: the marker, the status line and one line per issue
formatComponentHealth(component) ==
    [marker |-> CASE component.Status = "Healthy" -> "ok"
                  [] component.Status = "Degraded" -> "warning"
                  [] component.Status \in {"Unhealthy", "Error"} -> "cross"
                  [] component.Status \in {"NotFound", "NotInstalled"} -> "circle"
                  [] OTHER -> "question",
     Component |-> component.Component, Status |-> component.Status,
     Reason |-> component.Reason, Issues |-> component.Issues]

\* the report built from the components checked
HealthReport_FirstDecides(components) ==
    LET totalCount == Len(components)
        healthyCount == IF IsHealthyComponent(components[1])
                        THEN CountTrue([i \in DOMAIN components |-> IsHealthyComponent(components[i])])
                        ELSE 0
        overallHealth == OverallHealth(healthyCount, totalCount)
    IN  [error |-> NoError,
         overallHealth |-> overallHealth,
         healthyCount |-> healthyCount,
         totalCount |-> totalCount,
         components |-> [i \in DOMAIN components |-> formatComponentHealth(components[i])],
         summary |-> generateHealthSummary(components, overallHealth)]

HealthReport(components) ==
    LET totalCount == Len(components)
        healthyCount == CountTrue([i \in DOMAIN components |-> IsHealthyComponent(components[i])])
        overallHealth == OverallHealth(healthyCount, totalCount)
    IN  [error |-> NoError,
         overallHealth |-> overallHealth,
         healthyCount |-> healthyCount,
         totalCount |-> totalCount,
         components |-> [i \in DOMAIN components |-> formatComponentHealth(components[i])],
         summary |-> generateHealthSummary(components, overallHealth)]

\* the loop over componentChecks.  order: the order the map range visits the
\* kinds in; responses: the answer of the list call of each kind
CheckedComponents_StopAtError(order, responses) ==
    LET all == [i \in DOMAIN order |-> checkComponentHealth(order[i], responses[order[i]])]
        failed == {i \in DOMAIN all : all[i].Status = "Error"}
        last == IF failed = {} THEN Len(all)
                ELSE CHOOSE i \in failed : \A j \in failed : i <= j
    IN  SubSeq(all, 1, last)

CheckedComponents(order, responses) ==
    [i \in DOMAIN order |-> checkComponentHealth(order[i], responses[order[i]])]

CheckSailOperatorHealth(order, responses) ==
    HealthReport(CheckedComponents(order, responses))

\* the list calls of one health check: one per kind, in the visiting order,
\* namespaced when a namespace is given and cluster-wide otherwise
HealthCalls(order, namespace) ==
    [i \in DOMAIN order |-> ListCall(componentChecks[order[i]].Resource, namespace, "")]

(***************************************************************************)
(* The cluster objects and arguments the health handlers are run on.       *)
(***************************************************************************)
HealthNamespaces == {"", "istio-system"}

\* an entry of status.conditions that is no map
NonMapEntry == [isMap |-> FALSE, type |-> "", status |-> "", reason |-> ""]

\* the condition lists of the listed instances: at most one entry
ListedConditions ==
    {<<>>, <<NonMapEntry>>, <<Condition("Ready", "Unknown", "")>>,
     <<Condition("Reconciled", "", "ReconcileError")>>}
    \cup {<<Condition(t, s, "")>> : t \in CondTypes, s \in {"True", "False"}}

\* the status blocks of the listed instances
ListedStatuses ==
    {NoStatus}
    \cup {Status(FALSE, <<>>, FALSE, "")}
    \cup {Status(TRUE, conds, stateIsString, IF stateIsString THEN state ELSE "") :
            conds \in ListedConditions,
            stateIsString \in BOOLEAN, state \in {"Healthy", "Error"}}

ListedItems(namespace) == {Resource("default", namespace, st) : st \in ListedStatuses}

ListResponse(err, items) == [err |-> err, items |-> items]

ComponentResponses(namespace) ==
    {ListResponse(e, <<>>) : e \in ListErrors}
    \cup {ListResponse(NoError, items) : items \in SeqsUpTo(ListedItems(namespace), MaxItems)}

\* when the four kinds are checked together, a kind has no instance, a
\* healthy one, an unhealthy one, or a healthy and an unhealthy one
HealthyItem(namespace) ==
    Resource("default", namespace,
             Status(TRUE, <<Condition("Ready", "True", "")>>, TRUE, "Healthy"))

UnhealthyItem(namespace) ==
    Resource("broken", namespace,
             Status(TRUE, <<Condition("Ready", "False", "NotReady")>>, TRUE, "Error"))

KindLists(namespace) ==
    {<<>>, <<HealthyItem(namespace)>>, <<UnhealthyItem(namespace)>>,
     <<HealthyItem(namespace), UnhealthyItem(namespace)>>}

KindResponses(namespace) ==
    {ListResponse(e, <<>>) : e \in {"NotFound", "Forbidden"}}
    \cup {ListResponse(NoError, items) : items \in KindLists(namespace)}

(***************************************************************************)
(* Text.  A string is a sequence of one-character strings (a name) or of   *)
(* tokens (an annotation value); "" is the empty sequence.                 *)
(***************************************************************************)
Ellipsis == <<".", ".", ".">>

\* truncateString: s when it fits in maxLen, else its first maxLen-3
\* characters and "..."
truncateString_KeepMaxLen(s, maxLen) ==
    IF Len(s) <= maxLen THEN s ELSE SubSeq(s, 1, maxLen) \o Ellipsis

truncateString(s, maxLen) ==
    IF Len(s) <= maxLen THEN s ELSE SubSeq(s, 1, maxLen - 3) \o Ellipsis

\* strings.Contains(s, token), for a token that is one element of s
Contains(s, token) == \E i \in DOMAIN s : s[i] = token

\* the width table names are cut to
NameWidth == 29

NameChars == <<"a", "b", "c", "d", "e", "f", "g">>

\* the name of n characters that starts at the k-th character of NameChars
NameOfLen(n, k) == [i \in 1..n |-> NameChars[((i + k - 2) % Len(NameChars)) + 1]]

(***************************************************************************)
(* Pods.  annotations.isNil: the pod has no annotations map; entries: the  *)
(* map, from keys to values.                                               *)
(***************************************************************************)
SidecarName == "istio-proxy"
InjectKey == "sidecar.istio.io/inject"
StatusKey == "sidecar.istio.io/status"
OtherKey == "app.kubernetes.io/name"

NilAnnotations == [isNil |-> TRUE, entries |-> <<>>]

Annotations(entries) == [isNil |-> FALSE, entries |-> entries]

\* a map lookup: the value, or "" when the key is missing (or the map is nil)
Lookup(annotations, key) ==
    IF key \in DOMAIN annotations.entries THEN annotations.entries[key] ELSE <<>>

Exists(annotations, key) == key \in DOMAIN annotations.entries

ContainerStatus(name, ready) == [name |-> name, ready |-> ready]

Pod(name, namespace, containers, containerStatuses, annotations) ==
    [name |-> name, namespace |-> namespace, containers |-> containers,
     containerStatuses |-> containerStatuses, annotations |-> annotations]

(***************************************************************************)
(* isSystemPod and analyzePodMeshStatus                                    *)
(***************************************************************************)
systemNamespaces_NoCNI ==
    {"kube-system", "kube-public", "kube-node-lease", "local-path-storage",
     "istio-system", "sail-operator"}

systemNamespaces ==
    {"kube-system", "kube-public", "kube-node-lease", "local-path-storage",
     "istio-system", "istio-cni", "sail-operator"}

isSystemPod(pod) == pod.namespace \in systemNamespaces

\* "Look for istio-proxy container"
HasSidecarContainer(pod) ==
    \E i \in DOMAIN pod.containers : pod.containers[i] = SidecarName

\* "Check container status": the first status entry named istio-proxy
SidecarStatusIndex(pod) ==
    {i \in DOMAIN pod.containerStatuses :
        /\ pod.containerStatuses[i].name = SidecarName
        /\ \A j \in 1..(i - 1) : pod.containerStatuses[j].name # SidecarName}

SidecarReady(pod) ==
    /\ HasSidecarContainer(pod)
    /\ \E i \in SidecarStatusIndex(pod) : pod.containerStatuses[i].ready

ReadinessIssues(pod) ==
    IF /\ HasSidecarContainer(pod)
       /\ \E i \in SidecarStatusIndex(pod) : ~pod.containerStatuses[i].ready
    THEN <<"Istio sidecar not ready">> ELSE <<>>

\* "Check injection annotations": the inject annotation against the container
InjectionIssues_Never(annotations, sidecarInjected) == <<>>

InjectionIssues(annotations, sidecarInjected) ==
    LET injectionAnnotation == Lookup(annotations, InjectKey)
    IN  IF injectionAnnotation = <<"false">> /\ sidecarInjected
        THEN <<"Pod has sidecar despite injection disabled">>
        ELSE IF injectionAnnotation = <<"true">> /\ ~sidecarInjected
        THEN <<"Pod missing sidecar despite injection enabled">>
        ELSE <<>>

\* "Check for istio status annotation"
StatusAnnotationIssues_AnyPod(annotations, sidecarInjected) ==
    IF Exists(annotations, StatusKey)
    THEN IF ~Contains(Lookup(annotations, StatusKey), SidecarName)
         THEN <<"Istio status annotation missing proxy information">> ELSE <<>>
    ELSE <<"Missing istio status annotation">>

StatusAnnotationIssues(annotations, sidecarInjected) ==
    LET statusAnnotation == Lookup(annotations, StatusKey)
        exists == Exists(annotations, StatusKey)
    IN  IF exists /\ sidecarInjected
        THEN IF ~Contains(statusAnnotation, SidecarName)
             THEN <<"Istio status annotation missing proxy information">> ELSE <<>>
        ELSE IF sidecarInjected /\ statusAnnotation = <<>>
        THEN <<"Missing istio status annotation">>
        ELSE <<>>

AnnotationIssues(pod, sidecarInjected) ==
    IF ~pod.annotations.isNil
    THEN InjectionIssues(pod.annotations, sidecarInjected)
         \o StatusAnnotationIssues(pod.annotations, sidecarInjected)
    ELSE <<>>

MeshStatus(sidecarInjected, sidecarReady) ==
    IF sidecarInjected /\ sidecarReady THEN "In Mesh"
    ELSE IF sidecarInjected /\ ~sidecarReady THEN "Mesh Issues"
    ELSE "Not in Mesh"

analyzePodMeshStatus(pod) ==
    LET sidecarInjected == HasSidecarContainer(pod)
        sidecarReady == SidecarReady(pod)
    IN  [Name |-> pod.name, Namespace |-> pod.namespace, Kind |-> "Pod",
         Annotations |-> pod.annotations,
         Issues |-> ReadinessIssues(pod) \o AnnotationIssues(pod, sidecarInjected),
         MeshStatus |-> MeshStatus(sidecarInjected, sidecarReady),
         SidecarInjected |-> sidecarInjected,
         SidecarReady |-> sidecarReady]

(***************************************************************************)
(* CheckMeshWorkloads                                                      *)
(***************************************************************************)
IsWorkloadPod(pod) == ~isSystemPod(pod)

IsInjected(workload) == workload.SidecarInjected

HasIssues(workload) == Len(workload.Issues) > 0

\* one row of the workload table
WorkloadRow(workload) ==
    [name |-> truncateString(workload.Name, NameWidth),
     namespace |-> workload.Namespace,
     meshStatus |-> workload.MeshStatus,
     sidecar |-> IF workload.SidecarInjected
                 THEN IF workload.SidecarReady THEN "ok" ELSE "warning"
                 ELSE "cross",
     ready |-> IF workload.SidecarReady THEN "ok" ELSE "cross",
     issues |-> Len(workload.Issues)]

\* one entry of the "Issues Found" section
WorkloadIssues(workload) ==
    [name |-> workload.Name, namespace |-> workload.Namespace, issues |-> workload.Issues]

\* an error result: the text names what failed and carries the client's error
ErrorResult_Propagates(what, err) ==
    [error |-> err, failed |-> TRUE, what |-> what, message |-> err]

ErrorResult(what, err) == [error |-> NoError, failed |-> TRUE, what |-> what, message |-> err]

\* resp is the answer to the pod list call: [err, items]
CheckMeshWorkloads(namespace, resp) ==
    IF resp.err # NoError THEN ErrorResult("Error listing pods", resp.err)
    ELSE LET kept == SelectSeq(resp.items, IsWorkloadPod)
             workloads == [i \in DOMAIN kept |-> analyzePodMeshStatus(kept[i])]
             totalCount == Len(kept)
             injectedCount == CountTrue([i \in DOMAIN workloads |-> IsInjected(workloads[i])])
             withIssues == SelectSeq(workloads, HasIssues)
         IN  IF Len(workloads) = 0
             THEN [error |-> NoError, failed |-> FALSE, found |-> FALSE,
                   inNamespace |-> namespace, rows |-> <<>>]
             ELSE [error |-> NoError, failed |-> FALSE, found |-> TRUE,
                   total |-> totalCount,
                   withSidecar |-> injectedCount,
                   withoutSidecar |-> totalCount - injectedCount,
                   rows |-> [i \in DOMAIN workloads |-> WorkloadRow(workloads[i])],
                   issuesFound |-> [i \in DOMAIN withIssues |-> WorkloadIssues(withIssues[i])]]

(***************************************************************************)
(* The pods and arguments the mesh handlers are run on.                    *)
(***************************************************************************)
ContainerNames == {"app", SidecarName}

InjectValues == {<<"true">>, <<"false">>}

StatusValues == {<<>>, <<"{}">>, <<"{containers:[", SidecarName, "]}">>}

\* the maps over a set of keys, each key with one of its values
AnnotationMaps ==
    UNION {[keys -> InjectValues \cup StatusValues \cup {<<"web">>}] :
             keys \in SUBSET {InjectKey, StatusKey, OtherKey}}

WellFormedAnnotations(entries) ==
    /\ InjectKey \in DOMAIN entries => entries[InjectKey] \in InjectValues
    /\ StatusKey \in DOMAIN entries => entries[StatusKey] \in StatusValues
    /\ OtherKey \in DOMAIN entries => entries[OtherKey] = <<"web">>

PodAnnotations ==
    {NilAnnotations}
    \cup {Annotations(entries) : entries \in {e \in AnnotationMaps : WellFormedAnnotations(e)}}

AnalyzedPods ==
    {Pod(NameOfLen(5, 1), namespace, containers, containerStatuses, annotations) :
        namespace \in {"default"},
        containers \in SeqsUpTo(ContainerNames, MaxContainers),
        containerStatuses \in SeqsUpTo([name : ContainerNames, ready : BOOLEAN], MaxContainers),
        annotations \in PodAnnotations}

\* the pods of a pod list: without a sidecar, with a ready sidecar, and with
\* a sidecar that is not ready although injection is disabled
PlainPod(namespace) ==
    Pod(NameOfLen(5, 1), namespace, <<"app">>, <<ContainerStatus("app", TRUE)>>,
        NilAnnotations)

MeshedPod(namespace) ==
    Pod(NameOfLen(NameWidth, 2), namespace, <<"app", SidecarName>>,
        <<ContainerStatus("app", TRUE), ContainerStatus(SidecarName, TRUE)>>,
        Annotations([k \in {StatusKey} |-> <<"{containers:[", SidecarName, "]}">>]))

BrokenPod(namespace) ==
    Pod(NameOfLen(NameWidth + 1, 3), namespace, <<SidecarName, "app">>,
        <<ContainerStatus(SidecarName, FALSE), ContainerStatus("app", TRUE)>>,
        Annotations([k \in {InjectKey} |-> <<"false">>]))

\* the namespaces of the cluster
ClusterNamespaces ==
    {"default", "bookinfo", "kube-system", "kube-public", "kube-node-lease",
     "local-path-storage", "istio-system", "istio-cni", "sail-operator"}

\* the namespaces a pod list covers: the one asked for, or all of them
ListedNamespaces(namespace) ==
    IF namespace = "" THEN ClusterNamespaces ELSE {namespace}

MeshPods(namespace) ==
    UNION {{PlainPod(ns), MeshedPod(ns), BrokenPod(ns)} : ns \in ListedNamespaces(namespace)}

MeshResponses(namespace) ==
    {ListResponse(e, <<>>) : e \in {"Forbidden"}}
    \cup {ListResponse(NoError, items) : items \in SeqsUpTo(MeshPods(namespace), MaxPods)}

LabelSelectors == {<<>>, <<"app=web">>}

(***************************************************************************)
(* Resource listing: text, JSON payload and the pieces the five list       *)
(* handlers share.  Creation times, ages, labels and pod IPs are copied    *)
(* or formatted per object and are left out of the summaries.              *)
(***************************************************************************)
\* strings.Join of a sequence of strings
RECURSIVE Join(_, _)
Join(strs, sep) ==
    IF strs = <<>> THEN <<>>
    ELSE IF Len(strs) = 1 THEN Head(strs)
    ELSE Head(strs) \o sep \o Join(Tail(strs), sep)

Digits == <<"0", "1", "2", "3", "4", "5", "6", "7", "8", "9">>

\* strconv.Itoa
RECURSIVE Itoa(_)
Itoa(n) ==
    IF n < 0 THEN <<"-">> \o Itoa(0 - n)
    ELSE IF n < 10 THEN <<Digits[n + 1]>>
    ELSE Itoa(n \div 10) \o <<Digits[(n % 10) + 1]>>

\* the text of a list result: "No <what> found" with the namespace and the
\* selector asked for, or "Found <n> <what>" and one table row per summary
TableText(what, rows, namespace, selector) ==
    IF Len(rows) = 0
    THEN [none |-> TRUE, what |-> what, inNamespace |-> namespace,
          withSelector |-> selector, rows |-> <<>>]
    ELSE [none |-> FALSE, what |-> what, count |-> Len(rows), rows |-> rows]

\* toJSONString of a result struct {Status, <items>, Count}: the item list
\* and the count are tagged omitempty, so an empty list and a zero count
\* are left out of the object
SuccessPayload(key, items, count) ==
    LET status == [k \in {"status"} |-> "success"]
        list == IF Len(items) = 0 THEN <<>> ELSE [k \in {key} |-> items]
        cnt == IF count = 0 THEN <<>> ELSE [k \in {"count"} |-> count]
    IN  status @@ list @@ cnt

\* a successful list result: the text part and the JSON part
ListResult(text, payload) ==
    [error |-> NoError, failed |-> FALSE, text |-> text, json |-> payload]

(***************************************************************************)
(* ListPods                                                                *)
(***************************************************************************)
ListedContainerStatus(ready, restartCount) == [ready |-> ready, restartCount |-> restartCount]

ListedPod(name, namespace, phase, nodeName, containerStatuses) ==
    [name |-> name, namespace |-> namespace, phase |-> phase, nodeName |-> nodeName,
     containerStatuses |-> containerStatuses]

IsReadyStatus(cs) == cs.ready

RECURSIVE SumRestarts(_)
SumRestarts(statuses) ==
    IF statuses = <<>> THEN 0
    ELSE Head(statuses).restartCount + SumRestarts(Tail(statuses))

\* "Determine overall status"
PodStatus_ReadyFirst(phase, readyCount, totalCount) ==
    IF readyCount = totalCount THEN "Running"
    ELSE IF phase = "Pending" THEN "Pending"
    ELSE phase

PodStatus(phase, readyCount, totalCount) ==
    IF phase = "Running" /\ readyCount = totalCount THEN "Running"
    ELSE IF phase = "Pending" THEN "Pending"
    ELSE IF phase = "Failed" THEN "Failed"
    ELSE IF phase = "Succeeded" THEN "Completed"
    ELSE phase

PodInfo(pod) ==
    LET readyCount == CountTrue([i \in DOMAIN pod.containerStatuses |->
                                    IsReadyStatus(pod.containerStatuses[i])])
        totalCount == Len(pod.containerStatuses)
    IN  [Name |-> pod.name, Namespace |-> pod.namespace, Phase |-> pod.phase,
         NodeName |-> pod.nodeName,
         Ready |-> [ready |-> readyCount, total |-> totalCount],
         Restarts |-> SumRestarts(pod.containerStatuses),
         Status |-> PodStatus(pod.phase, readyCount, totalCount)]

PodRow(pod) ==
    [name |-> truncateString(pod.Name, NameWidth), namespace |-> pod.Namespace,
     status |-> pod.Status, ready |-> pod.Ready, restarts |-> pod.Restarts,
     node |-> pod.NodeName]

ListPods(namespace, labelSelector, resp) ==
    IF resp.err # NoError THEN ErrorResult("Error listing pods", resp.err)
    ELSE LET pods == [i \in DOMAIN resp.items |-> PodInfo(resp.items[i])]
         IN  ListResult(
                 TableText("pods", [i \in DOMAIN pods |-> PodRow(pods[i])],
                           namespace, labelSelector),
                 SuccessPayload("pods", pods, Len(pods)))

(***************************************************************************)
(* ListServices                                                            *)
(***************************************************************************)
Ingress(ip, hostname) == [ip |-> ip, hostname |-> hostname]

\* targetPort is an intstr: type "Int" with intVal, or a string strVal
Port(name, port, protocol, nodePort, targetType, intVal, strVal) ==
    [name |-> name, port |-> port, protocol |-> protocol, nodePort |-> nodePort,
     targetPort |-> [type |-> targetType, intVal |-> intVal, strVal |-> strVal]]

Service(name, namespace, type, clusterIP, ingress, ports) ==
    [name |-> name, namespace |-> namespace, type |-> type, clusterIP |-> clusterIP,
     ingress |-> ingress, ports |-> ports]

\* "Process external IPs": the ip and the hostname of each ingress entry
RECURSIVE ExternalIPs(_)
ExternalIPs(ingress) ==
    IF ingress = <<>> THEN <<>>
    ELSE (IF Head(ingress).ip # <<>> THEN <<Head(ingress).ip>> ELSE <<>>)
         \o (IF Head(ingress).hostname # <<>> THEN <<Head(ingress).hostname>> ELSE <<>>)
         \o ExternalIPs(Tail(ingress))

\* "Process ports"
ServicePort(port) ==
    [Name |-> port.name, Port |-> port.port, Protocol |-> port.protocol,
     NodePort |-> port.nodePort,
     TargetPort |-> IF port.targetPort.type = "Int"
                    THEN Itoa(port.targetPort.intVal)
                    ELSE port.targetPort.strVal]

ServiceInfo(svc) ==
    [Name |-> svc.name, Namespace |-> svc.namespace, Type |-> svc.type,
     ClusterIP |-> svc.clusterIP,
     ExternalIP |-> ExternalIPs(svc.ingress),
     Ports |-> [i \in DOMAIN svc.ports |-> ServicePort(svc.ports[i])]]

ExternalIPWidth == 19

ServiceRow(svc) ==
    [name |-> truncateString(svc.Name, NameWidth), namespace |-> svc.Namespace,
     type |-> svc.Type, clusterIP |-> svc.ClusterIP,
     externalIP |-> truncateString(
        IF Len(svc.ExternalIP) > 0 THEN Join(svc.ExternalIP, <<",">>)
        ELSE <<"<", "n", "o", "n", "e", ">">>, ExternalIPWidth),
     ports |-> [i \in DOMAIN svc.Ports |->
                  [port |-> svc.Ports[i].Port, protocol |-> svc.Ports[i].Protocol]]]

ListServices(namespace, labelSelector, resp) ==
    IF resp.err # NoError THEN ErrorResult("Error listing services", resp.err)
    ELSE LET services == [i \in DOMAIN resp.items |-> ServiceInfo(resp.items[i])]
         IN  ListResult(
                 TableText("services", [i \in DOMAIN services |-> ServiceRow(services[i])],
                           namespace, labelSelector),
                 SuccessPayload("services", services, Len(services)))

(***************************************************************************)
(* ListDeployments                                                         *)
(***************************************************************************)
Deployment(name, namespace, readyReplicas, replicas, updatedReplicas, availableReplicas, strategy) ==
    [name |-> name, namespace |-> namespace, readyReplicas |-> readyReplicas,
     replicas |-> replicas, updatedReplicas |-> updatedReplicas,
     availableReplicas |-> availableReplicas, strategy |-> strategy]

DeploymentInfo(deploy) ==
    [Name |-> deploy.name, Namespace |-> deploy.namespace,
     Ready |-> [ready |-> deploy.readyReplicas, total |-> deploy.replicas],
     UpToDate |-> deploy.updatedReplicas, Available |-> deploy.availableReplicas,
     Strategy |-> IF deploy.strategy # "" THEN deploy.strategy ELSE ""]

DeploymentRow(deploy) ==
    [name |-> truncateString(deploy.Name, NameWidth), namespace |-> deploy.Namespace,
     ready |-> deploy.Ready, upToDate |-> deploy.UpToDate, available |-> deploy.Available]

ListDeployments(namespace, labelSelector, resp) ==
    IF resp.err # NoError THEN ErrorResult("Error listing deployments", resp.err)
    ELSE LET deployments == [i \in DOMAIN resp.items |-> DeploymentInfo(resp.items[i])]
         IN  ListResult(
                 TableText("deployments",
                           [i \in DOMAIN deployments |-> DeploymentRow(deployments[i])],
                           namespace, labelSelector),
                 SuccessPayload("deployments", deployments, Len(deployments)))

(***************************************************************************)
(* ListConfigMaps.  data is the sequence of the keys of cm.Data in the     *)
(* order the range over the map visits them.                               *)
(***************************************************************************)
ConfigMap(name, namespace, data) == [name |-> name, namespace |-> namespace, data |-> data]

ConfigMapInfo(cm) ==
    [Name |-> cm.name, Namespace |-> cm.namespace, DataCount |-> Len(cm.data),
     Keys |-> cm.data]

KeysWidth == 40

ConfigMapRow(cm) ==
    LET keys == Join(cm.Keys, <<",">>)
    IN  [name |-> truncateString(cm.Name, NameWidth), namespace |-> cm.Namespace,
         data |-> cm.DataCount,
         keys |-> IF Len(keys) > KeysWidth
                  THEN SubSeq(keys, 1, KeysWidth - 3) \o Ellipsis ELSE keys]

ListConfigMaps(namespace, labelSelector, resp) ==
    IF resp.err # NoError THEN ErrorResult("Error listing configmaps", resp.err)
    ELSE LET configMaps == [i \in DOMAIN resp.items |-> ConfigMapInfo(resp.items[i])]
         IN  ListResult(
                 TableText("configmaps",
                           [i \in DOMAIN configMaps |-> ConfigMapRow(configMaps[i])],
                           namespace, labelSelector),
                 SuccessPayload("configmaps", configMaps, Len(configMaps)))

(***************************************************************************)
(* ListEvents.  A field selector is the sequence of its comma-separated    *)
(* clauses.                                                                *)
(***************************************************************************)
Clause(key, value) == [key |-> key, value |-> value]

\* appendFieldSelector: "key=value", after a "," when current is not empty
appendFieldSelector(current, key, value) ==
    IF current = <<>> THEN <<Clause(key, value)>>
    ELSE current \o <<Clause(key, value)>>

\* "Synthesize common field selectors"
EventFieldSelector(a) ==
    LET fs0 == a.fieldSelector
        fs1 == IF a.involvedKind # "" THEN appendFieldSelector(fs0, "regarding.kind", a.involvedKind) ELSE fs0
        fs2 == IF a.involvedName # "" THEN appendFieldSelector(fs1, "regarding.name", a.involvedName) ELSE fs1
        fs3 == IF a.involvedNamespace # ""
               THEN appendFieldSelector(fs2, "regarding.namespace", a.involvedNamespace) ELSE fs2
    IN  fs3

\* the list call of ListEvents: the limit is sent only when it is positive
EventsCall(a) ==
    [verb |-> "list", resource |-> "events", namespace |-> a.namespace,
     selector |-> EventFieldSelector(a),
     limit |-> IF a.limit > 0 THEN a.limit ELSE 0]

Event(type, reason, note, count, kind, name, namespace) ==
    [type |-> type, reason |-> reason, note |-> note, count |-> count,
     regarding |-> [kind |-> kind, name |-> name, namespace |-> namespace]]

\* the events the loop keeps: those the type and reason arguments do not skip
EventKept_TypeOnly(a, e) ==
    ~(a.type # "" /\ e.type # a.type)

EventKept(a, e) ==
    /\ ~(a.type # "" /\ e.type # a.type)
    /\ ~(a.reason # "" /\ e.reason # a.reason)

RECURSIVE KeptEvents(_, _)
KeptEvents(a, items) ==
    IF items = <<>> THEN <<>>
    ELSE (IF EventKept(a, Head(items)) THEN <<Head(items)>> ELSE <<>>)
         \o KeptEvents(a, Tail(items))

EventInfo(e) ==
    [Type |-> e.type, Reason |-> e.reason, Message |-> e.note, Count |-> e.count,
     InvolvedKind |-> e.regarding.kind, InvolvedName |-> e.regarding.name,
     InvolvedNamespace |-> e.regarding.namespace]

MessageWidth == 50

EventRow(ev) ==
    LET involved == ev.InvolvedKind
                    \o (IF ev.InvolvedNamespace # <<>> THEN <<"/">> \o ev.InvolvedNamespace ELSE <<>>)
                    \o <<"/">> \o ev.InvolvedName
    IN  [type |-> ev.Type, reason |-> ev.Reason,
         involved |-> truncateString(involved, NameWidth), count |-> ev.Count,
         message |-> IF Len(ev.Message) > MessageWidth
                     THEN SubSeq(ev.Message, 1, MessageWidth - 3) \o Ellipsis
                     ELSE ev.Message]

\* the payload of ListEvents, from the summaries and the events listed
EventsPayload_CountsListed(events, listed) ==
    SuccessPayload("events", events, Len(listed))

EventsPayload(events, listed) ==
    SuccessPayload("events", events, Len(events))

ListEvents(a, resp) ==
    IF resp.err # NoError THEN ErrorResult("Error listing events", resp.err)
    ELSE LET kept == KeptEvents(a, resp.items)
             events == [i \in DOMAIN kept |-> EventInfo(kept[i])]
         IN  ListResult(
                 TableText("events", [i \in DOMAIN events |-> EventRow(events[i])],
                           <<>>, <<>>),
                 EventsPayload(events, resp.items))

(***************************************************************************)
(* The objects and arguments the list handlers are run on.                 *)
(***************************************************************************)
ListNamespaceArguments == {"", "default"}

\* names shorter than, as long as and longer than the name column
ListedNames == {NameOfLen(n, 1) : n \in {5, NameWidth, NameWidth + 1, NameWidth + 11}}

NamespaceOf(namespace) == IF namespace = "" THEN "bookinfo" ELSE namespace

ListedPodShapes ==
    {<<"Running", <<ListedContainerStatus(TRUE, 0)>>>>,
     <<"Running", <<ListedContainerStatus(TRUE, 2), ListedContainerStatus(FALSE, 1)>>>>,
     <<"Pending", <<>>>>,
     <<"Failed", <<ListedContainerStatus(FALSE, 3)>>>>,
     <<"Succeeded", <<ListedContainerStatus(FALSE, 0)>>>>,
     <<"Unknown", <<ListedContainerStatus(TRUE, 0)>>>>}

ListedPods(namespace) ==
    {ListedPod(name, NamespaceOf(namespace), shape[1], "node-1", shape[2]) :
        name \in ListedNames, shape \in ListedPodShapes}

ListedIngress ==
    {<<>>,
     <<Ingress(NameOfLen(8, 1), <<>>)>>,
     <<Ingress(NameOfLen(8, 1), NameOfLen(12, 3)), Ingress(<<>>, NameOfLen(4, 5))>>}

ListedPorts ==
    {<<Port("http", 80, "TCP", 0, "Int", 8080, <<>>),
       Port("metrics", 9090, "TCP", 30090, "String", 0, NameOfLen(7, 2))>>}

ListedServices(namespace) ==
    {Service(name, NamespaceOf(namespace), "ClusterIP", NameOfLen(9, 2), ingress, ports) :
        name \in ListedNames, ingress \in ListedIngress, ports \in ListedPorts}

ListedDeployments(namespace) ==
    {Deployment(name, NamespaceOf(namespace), ready, 2, 2, ready, strategy) :
        name \in ListedNames, ready \in {1, 2}, strategy \in {"RollingUpdate"}}

ListedData ==
    {<<>>, <<NameOfLen(6, 1)>>, <<NameOfLen(6, 1), NameOfLen(36, 2)>>}

ListedConfigMaps(namespace) ==
    {ConfigMap(name, NamespaceOf(namespace), data) : name \in ListedNames, data \in ListedData}

ListedEvents(namespace) ==
    {Event(type, reason, NameOfLen(IF type = "Warning" THEN MessageWidth + 5 ELSE 10, 1), 1,
           <<"P", "o", "d">>, NameOfLen(NameWidth - 4, 2), NameOfLen(7, 3)) :
        type \in {"Normal", "Warning"}, reason \in {"Created", "Failed"}}

ObjectResponses(objects) ==
    {ListResponse(e, <<>>) : e \in {"Forbidden"}}
    \cup {ListResponse(NoError, items) : items \in SeqsUpTo(objects, MaxObjects)}

EventArgs ==
    [namespace : ListNamespaceArguments,
     fieldSelector : {<<>>, <<Clause("type", "Warning")>>},
     involvedKind : {"", "Pod"},
     involvedName : {"", "web-1"},
     involvedNamespace : {"", "default"},
     type : {"", "Warning"},
     reason : {"", "Failed"},
     limit : {0, 5}]

(***************************************************************************)
(* Actions.                                                                *)
(***************************************************************************)
Init ==
    /\ op = "none"
    /\ args = [namespace |-> ""]
    /\ calls = <<>>
    /\ response = <<>>
    /\ result = [error |-> NoError]
    /\ stream = NoStream
    /\ earlier = "none"

Idle == op = "none"

\* the result is handed to the transport; the handlers keep nothing
Respond ==
    /\ ~Idle
    /\ stream.phase # "open"
    /\ op' = "none"
    /\ args' = [namespace |-> ""]
    /\ calls' = <<>>
    /\ response' = <<>>
    /\ result' = [error |-> NoError]
    /\ stream' = NoStream
    /\ UNCHANGED earlier

\* checkComponentHealth on one kind
CheckComponent ==
    /\ Idle
    /\ \E componentName \in Components, namespace \in HealthNamespaces :
       \E resp \in ComponentResponses(namespace) :
        /\ op' = "checkComponentHealth"
        /\ args' = [component |-> componentName, namespace |-> namespace]
        /\ calls' = <<ListCall(componentChecks[componentName].Resource, namespace, "")>>
        /\ response' = resp
        /\ result' = checkComponentHealth(componentName, resp)
    /\ UNCHANGED <<stream, earlier>>

\* the check_sail_operator_health tool
CheckHealth ==
    /\ Idle
    /\ \E namespace \in HealthNamespaces, order \in IterationOrders :
       \E responses \in [Components -> KindResponses(namespace)] :
        /\ op' = "CheckSailOperatorHealth"
        /\ args' = [namespace |-> namespace]
        /\ calls' = HealthCalls(order, namespace)
        /\ response' = responses
        /\ result' = CheckSailOperatorHealth(order, responses)
    /\ UNCHANGED <<stream, earlier>>

\* analyzePodMeshStatus on one pod
AnalyzePod ==
    /\ Idle
    /\ \E pod \in AnalyzedPods :
        /\ op' = "analyzePodMeshStatus"
        /\ args' = [namespace |-> ""]
        /\ calls' = <<>>
        /\ response' = pod
        /\ result' = analyzePodMeshStatus(pod)
    /\ UNCHANGED <<stream, earlier>>

\* the check_mesh_workloads tool
CheckMesh ==
    /\ Idle
    /\ \E namespace \in {"", "default", "istio-system"}, labelSelector \in LabelSelectors :
       \E resp \in MeshResponses(namespace) :
        /\ op' = "CheckMeshWorkloads"
        /\ args' = [namespace |-> namespace, labelSelector |-> labelSelector]
        /\ calls' = <<ListCall("pods", namespace, labelSelector)>>
        /\ response' = resp
        /\ result' = CheckMeshWorkloads(namespace, resp)
    /\ UNCHANGED <<stream, earlier>>

\* the list_pods tool
DoListPods ==
    /\ Idle
    /\ \E namespace \in ListNamespaceArguments, labelSelector \in LabelSelectors :
       \E resp \in ObjectResponses(ListedPods(namespace)) :
        /\ op' = "ListPods"
        /\ args' = [namespace |-> namespace, labelSelector |-> labelSelector]
        /\ calls' = <<ListCall("pods", namespace, labelSelector)>>
        /\ response' = resp
        /\ result' = ListPods(namespace, labelSelector, resp)
    /\ UNCHANGED <<stream, earlier>>

\* the list_services tool
DoListServices ==
    /\ Idle
    /\ \E namespace \in ListNamespaceArguments, labelSelector \in LabelSelectors :
       \E resp \in ObjectResponses(ListedServices(namespace)) :
        /\ op' = "ListServices"
        /\ args' = [namespace |-> namespace, labelSelector |-> labelSelector]
        /\ calls' = <<ListCall("services", namespace, labelSelector)>>
        /\ response' = resp
        /\ result' = ListServices(namespace, labelSelector, resp)
    /\ UNCHANGED <<stream, earlier>>

\* the list_deployments tool
DoListDeployments ==
    /\ Idle
    /\ \E namespace \in ListNamespaceArguments, labelSelector \in LabelSelectors :
       \E resp \in ObjectResponses(ListedDeployments(namespace)) :
        /\ op' = "ListDeployments"
        /\ args' = [namespace |-> namespace, labelSelector |-> labelSelector]
        /\ calls' = <<ListCall("deployments", namespace, labelSelector)>>
        /\ response' = resp
        /\ result' = ListDeployments(namespace, labelSelector, resp)
    /\ UNCHANGED <<stream, earlier>>

\* the list_configmaps tool
DoListConfigMaps_Remembers ==
    /\ Idle
    /\ \E namespace \in ListNamespaceArguments, labelSelector \in LabelSelectors :
       \E resp \in ObjectResponses(ListedConfigMaps(namespace)) :
        /\ op' = "ListConfigMaps"
        /\ args' = [namespace |-> namespace, labelSelector |-> labelSelector]
        /\ calls' = <<ListCall("configmaps", namespace, labelSelector)>>
        /\ response' = resp
        /\ result' = IF earlier = "failed"
                     THEN ErrorResult("Error listing configmaps", "Forbidden")
                     ELSE ListConfigMaps(namespace, labelSelector, resp)
    /\ UNCHANGED <<stream, earlier>>

DoListConfigMaps ==
    /\ Idle
    /\ \E namespace \in ListNamespaceArguments, labelSelector \in LabelSelectors :
       \E resp \in ObjectResponses(ListedConfigMaps(namespace)) :
        /\ op' = "ListConfigMaps"
        /\ args' = [namespace |-> namespace, labelSelector |-> labelSelector]
        /\ calls' = <<ListCall("configmaps", namespace, labelSelector)>>
        /\ response' = resp
        /\ result' = ListConfigMaps(namespace, labelSelector, resp)
    /\ UNCHANGED <<stream, earlier>>

\* the list_events tool
DoListEvents ==
    /\ Idle
    /\ \E a \in EventArgs :
       \E resp \in ObjectResponses(ListedEvents(a.namespace)) :
        /\ op' = "ListEvents"
        /\ args' = a
        /\ calls' = <<EventsCall(a)>>
        /\ response' = resp
        /\ result' = ListEvents(a, resp)
    /\ UNCHANGED <<stream, earlier>>

NextComponent == CheckComponent \/ Respond
SpecComponent == Init /\ [][NextComponent]_vars

NextHealth == CheckHealth \/ Respond
SpecHealth == Init /\ [][NextHealth]_vars

NextPod == AnalyzePod \/ Respond
SpecPod == Init /\ [][NextPod]_vars

NextMesh == CheckMesh \/ Respond
SpecMesh == Init /\ [][NextMesh]_vars

NextList ==
    \/ DoListPods
    \/ DoListServices
    \/ DoListDeployments
    \/ DoListConfigMaps
    \/ DoListEvents
    \/ Respond
SpecList == Init /\ [][NextList]_vars

(***************************************************************************)
(* Health aggregation of one kind (checkComponentHealth).                  *)
(***************************************************************************)
CriticalTypes == {"Ready", "Reconciled", "DependenciesHealthy"}

\* every Ready, Reconciled and DependenciesHealthy condition that is present
\* has status "True"
CriticalConditionsTrue(resource) ==
    resource.status.found /\ resource.status.condsFound =>
        \A i \in DOMAIN resource.status.conds :
            LET c == resource.status.conds[i]
            IN  c.isMap /\ c.type \in CriticalTypes => c.status = "True"

StateIsHealthy(resource) ==
    resource.status.found /\ resource.status.stateIsString
    /\ resource.status.state = "Healthy"

StateIsAbsent(resource) ==
    ~(resource.status.found /\ resource.status.stateIsString)

HealthyAsStated(resource) ==
    CriticalConditionsTrue(resource) /\ StateIsHealthy(resource)

HealthyOrNoState(resource) ==
    CriticalConditionsTrue(resource)
    /\ (StateIsHealthy(resource) \/ StateIsAbsent(resource))

ListedSome == op = "checkComponentHealth" /\ response.err = NoError /\ Len(response.items) >= 1

\* the kind status follows the ratio of the N healthy instances among M
StatusFollowsRatio(N) ==
    LET M == Len(response.items)
    IN  /\ result.Status = "Healthy" <=> N = M
        /\ result.Status = "Degraded" <=> (0 < N /\ N < M)
        /\ result.Status = "Unhealthy" <=> N = 0

\* C1 as stated: with N counting the instances whose critical conditions are
\* all "True" and whose status.state is "Healthy", the kind status is Healthy
\* iff N = M, Degraded iff 0 < N < M, Unhealthy iff N = 0.
C1_AsStated ==
    ListedSome => StatusFollowsRatio(
        Cardinality({i \in DOMAIN response.items : HealthyAsStated(response.items[i])}))

\* C1 amended: the same with N counting the instances whose critical
\* conditions are all "True" and whose status.state is "Healthy" or is not
\* present as a string.
C1_HealthRatio ==
    ListedSome => StatusFollowsRatio(
        Cardinality({i \in DOMAIN response.items : HealthyOrNoState(response.items[i])}))

\* a Degraded kind: two instances, one unhealthy, one healthy without a state
C1_Witness ==
    /\ ListedSome
    /\ Len(response.items) = 2
    /\ result.Status = "Degraded"
    /\ \E i \in DOMAIN response.items :
          StateIsAbsent(response.items[i]) /\ HealthyOrNoState(response.items[i])

HealthChecked == op = "CheckSailOperatorHealth"

HealthyKinds ==
    {k \in Components :
        \E i \in DOMAIN result.components :
            result.components[i].Component = k /\ result.components[i].Status = "Healthy"}

\* C2: the overall health is Healthy iff all four kinds have status Healthy,
\* Unhealthy iff none has, Degraded otherwise, and the count n of
\* "n/4 components healthy" is the number of kinds whose status is Healthy.
C2_OverallHealth ==
    HealthChecked =>
        LET n == Cardinality(HealthyKinds)
        IN  /\ result.totalCount = 4
            /\ result.healthyCount = n
            /\ result.overallHealth = "Healthy" <=> HealthyKinds = Components
            /\ result.overallHealth = "Unhealthy" <=> HealthyKinds = {}
            /\ result.overallHealth = "Degraded" <=> (n > 0 /\ n < 4)

\* two of the four kinds Healthy: the overall health is Degraded
C2_Witness ==
    HealthChecked /\ Cardinality(HealthyKinds) = 2 /\ result.overallHealth = "Degraded"

\* the component reported for kind k
ReportedFor(k) ==
    {i \in DOMAIN result.components : result.components[i].Component = k}

\* the status of a kind whose list call got answer resp, by the rules of
\* the health aggregation
KindStatusAlone(resp) ==
    IF IsNotFound(resp.err) THEN "NotFound"
    ELSE IF resp.err # NoError THEN "Error"
    ELSE IF resp.items = <<>> THEN "NotInstalled"
    ELSE LET N == Cardinality({i \in DOMAIN resp.items : HealthyOrNoState(resp.items[i])})
         IN  IF N = Len(resp.items) THEN "Healthy"
             ELSE IF N > 0 THEN "Degraded" ELSE "Unhealthy"

FailedKinds == {k \in Components : response[k].err \notin {NoError, "NotFound"}}

\* C4: a kind whose list call fails with an error other than not-found gets
\* status Error with the underlying message among its issues; every kind is
\* still queried once and reported once with the status its own answer
\* gives; the handler returns a normal report; an empty list gives
\* NotInstalled.
C4_ErrorIsolated ==
    HealthChecked =>
        /\ result.error = NoError
        /\ Len(result.components) = 4
        /\ Len(calls) = 4
        /\ \A k \in Components :
              /\ Cardinality(ReportedFor(k)) = 1
              /\ Cardinality({i \in DOMAIN calls :
                     calls[i] = ListCall(componentChecks[k].Resource, args.namespace, "")}) = 1
              /\ \A i \in ReportedFor(k) :
                    /\ result.components[i].Status = KindStatusAlone(response[k])
                    /\ k \in FailedKinds =>
                          /\ result.components[i].Status = "Error"
                          /\ \E n \in DOMAIN result.components[i].Issues :
                                result.components[i].Issues[n].detail = response[k].err
                    /\ (response[k].err = NoError /\ response[k].items = <<>>) =>
                          result.components[i].Status = "NotInstalled"

\* one kind failed, one has no instances, one is healthy
C4_Witness ==
    /\ HealthChecked
    /\ Cardinality(FailedKinds) = 1
    /\ \E k \in Components : response[k].err = NoError /\ response[k].items = <<>>
    /\ HealthyKinds # {}
    /\ result.overallHealth = "Degraded"

(***************************************************************************)
(* Mesh analysis of one pod (analyzePodMeshStatus).                        *)
(***************************************************************************)
PodAnalyzed == op = "analyzePodMeshStatus"

\* the pod has annotation sidecar.istio.io/inject with value v
InjectIs(pod, v) ==
    /\ InjectKey \in DOMAIN pod.annotations.entries
    /\ pod.annotations.entries[InjectKey] = <<v>>

NoInjectAnnotation(pod) == InjectKey \notin DOMAIN pod.annotations.entries

HasProxyContainer(pod) == SidecarName \in {pod.containers[i] : i \in DOMAIN pod.containers}

\* C5: a pod with a container named istio-proxy and inject = "false" gets at
\* least one issue, and so does a pod with inject = "true" and no container
\* named istio-proxy.
C5_MismatchReported ==
    PodAnalyzed =>
        /\ (HasProxyContainer(response) /\ InjectIs(response, "false"))
              => Len(result.Issues) >= 1
        /\ (~HasProxyContainer(response) /\ InjectIs(response, "true"))
              => Len(result.Issues) >= 1

\* a pod with a ready sidecar and a good status annotation whose only issue
\* is the disabled injection
C5_Witness ==
    /\ PodAnalyzed
    /\ HasProxyContainer(response) /\ InjectIs(response, "false")
    /\ result.SidecarReady
    /\ result.Issues = <<"Pod has sidecar despite injection disabled">>

\* C6: a pod without the inject annotation and without a container named
\* istio-proxy is "Not in Mesh", not injected and has no issue, whatever
\* its other annotations and its container statuses are.
C6_NotInMesh ==
    PodAnalyzed =>
        ((NoInjectAnnotation(response) /\ ~HasProxyContainer(response)) =>
            /\ result.MeshStatus = "Not in Mesh"
            /\ result.SidecarInjected = FALSE
            /\ result.Issues = <<>>)

\* such a pod that has other annotations, no status annotation, and a
\* container status named istio-proxy that is not ready
C6_Witness ==
    /\ PodAnalyzed
    /\ NoInjectAnnotation(response) /\ ~HasProxyContainer(response)
    /\ OtherKey \in DOMAIN response.annotations.entries
    /\ StatusKey \notin DOMAIN response.annotations.entries
    /\ \E i \in DOMAIN response.containerStatuses :
          response.containerStatuses[i] = ContainerStatus(SidecarName, FALSE)
    /\ result.MeshStatus = "Not in Mesh"

(***************************************************************************)
(* Mesh analysis of a pod list (CheckMeshWorkloads).                       *)
(***************************************************************************)
MeshChecked == op = "CheckMeshWorkloads" /\ response.err = NoError

ExcludedNamespaces ==
    {"kube-system", "kube-public", "kube-node-lease", "local-path-storage",
     "istio-system", "istio-cni", "sail-operator"}

\* the positions of the listed pods outside the excluded namespaces
RemainingPods ==
    {i \in DOMAIN response.items : response.items[i].namespace \notin ExcludedNamespaces}

\* C7: no reported pod is in an excluded namespace; the total is the number
\* of remaining pods, one row each; total = with-sidecar + without-sidecar,
\* with-sidecar being the remaining pods that have a container named
\* istio-proxy.
C7_MeshCounts ==
    MeshChecked =>
        /\ \A i \in DOMAIN result.rows : result.rows[i].namespace \notin ExcludedNamespaces
        /\ Len(result.rows) = Cardinality(RemainingPods)
        /\ result.found <=> RemainingPods # {}
        /\ result.found =>
              /\ result.total = Cardinality(RemainingPods)
              /\ result.total = result.withSidecar + result.withoutSidecar
              /\ result.withSidecar =
                    Cardinality({i \in RemainingPods : HasProxyContainer(response.items[i])})

\* a system pod is dropped and a pod with a sidecar remains
C7_Witness ==
    /\ MeshChecked
    /\ Cardinality(RemainingPods) < Len(response.items)
    /\ result.found
    /\ result.withSidecar >= 1

(***************************************************************************)
(* Resource listing (ListPods, ListServices, ListDeployments,              *)
(* ListConfigMaps, ListEvents).                                            *)
(***************************************************************************)
LabelListOps == {"ListPods", "ListServices", "ListDeployments", "ListConfigMaps"}

ListOps == LabelListOps \cup {"ListEvents"}

ListSucceeded == op \in ListOps /\ ~result.failed

\* the key of the item list in the JSON payload of the handler that ran
ItemsKey ==
    CASE op = "ListPods" -> "pods"
      [] op = "ListServices" -> "services"
      [] op = "ListDeployments" -> "deployments"
      [] op = "ListConfigMaps" -> "configmaps"
      [] op = "ListEvents" -> "events"

\* the payload as a client decodes it: a missing list is empty, a missing
\* count is zero
PayloadItems == IF ItemsKey \in DOMAIN result.json THEN result.json[ItemsKey] ELSE <<>>

PayloadCount == IF "count" \in DOMAIN result.json THEN result.json["count"] ELSE 0

\* C8: on success the number of the "Found <n> ..." header equals the Count
\* field, the length of the item list of the payload and the number of
\* table rows; when the list is empty the text says none were found and
\* the payload list is empty.
C8_CountsAgree ==
    op \in ListOps =>
        /\ result.failed <=> response.err # NoError
        /\ ~result.failed =>
              /\ result.text.none <=> Len(PayloadItems) = 0
              /\ result.text.none => PayloadCount = 0 /\ Len(result.text.rows) = 0
              /\ ~result.text.none =>
                    /\ result.text.count = PayloadCount
                    /\ result.text.count = Len(PayloadItems)
                    /\ result.text.count = Len(result.text.rows)

\* two events listed, one of them skipped by the type or reason argument
C8_Witness ==
    /\ op = "ListEvents" /\ ~result.failed
    /\ Len(response.items) = 2
    /\ ~result.text.none
    /\ result.text.count = 1
    /\ PayloadCount = 1

\* the selector argument of the handler that ran
SelectorArgument == IF op = "ListEvents" THEN args.fieldSelector ELSE args.labelSelector

\* the summaries are the objects the client returned, one each, in order
OneSummaryPerObject ==
    /\ Len(PayloadItems) = Len(response.items)
    /\ \A i \in DOMAIN response.items :
          IF op = "ListEvents"
          THEN /\ PayloadItems[i].Type = response.items[i].type
               /\ PayloadItems[i].Reason = response.items[i].reason
          ELSE /\ PayloadItems[i].Name = response.items[i].name
               /\ PayloadItems[i].Namespace = response.items[i].namespace

\* C9 as stated: every listing operation passes the selector string to the
\* client unchanged and returns one summary per object the client
\* returned, in the same order.
C9_AsStated ==
    ListSucceeded =>
        /\ Len(calls) = 1
        /\ calls[1].selector = SelectorArgument
        /\ OneSummaryPerObject

MatchesArguments(e) ==
    /\ args.type = "" \/ e.type = args.type
    /\ args.reason = "" \/ e.reason = args.reason

\* the regarding.* clauses ListEvents adds for its involved-object arguments
InvolvedClauses ==
    (IF args.involvedKind # "" THEN <<Clause("regarding.kind", args.involvedKind)>> ELSE <<>>)
    \o (IF args.involvedName # "" THEN <<Clause("regarding.name", args.involvedName)>> ELSE <<>>)
    \o (IF args.involvedNamespace # ""
        THEN <<Clause("regarding.namespace", args.involvedNamespace)>> ELSE <<>>)

\* C9 amended: ListPods, ListServices, ListDeployments and ListConfigMaps
\* pass the label selector unchanged and return one summary per object the
\* client returned, in order.  ListEvents sends the field selector followed
\* by one regarding.* clause per involved-object argument given, and
\* returns, in order, one summary per returned event whose type and reason
\* equal the Type and Reason arguments that are given; the other events
\* are dropped on the client side.
C9_Delegation ==
    ListSucceeded =>
        /\ Len(calls) = 1
        /\ calls[1].namespace = args.namespace
        /\ op \in LabelListOps =>
              /\ calls[1].selector = args.labelSelector
              /\ OneSummaryPerObject
        /\ op = "ListEvents" =>
              LET matching == SelectSeq(response.items, MatchesArguments)
              IN  /\ calls[1].selector = args.fieldSelector \o InvolvedClauses
                  /\ Len(PayloadItems) = Len(matching)
                  /\ \A i \in DOMAIN matching :
                        /\ PayloadItems[i].Type = matching[i].type
                        /\ PayloadItems[i].Reason = matching[i].reason
                        /\ PayloadItems[i].Message = matching[i].note

\* ListEvents with a field selector and an involved kind, dropping the
\* first of two events because of its reason
C9_Witness ==
    /\ op = "ListEvents" /\ ~result.failed
    /\ args.fieldSelector # <<>> /\ args.involvedKind # ""
    /\ Len(calls[1].selector) = 2
    /\ args.type = "" /\ args.reason # ""
    /\ Len(response.items) = 2
    /\ response.items[1].reason # args.reason
    /\ Len(PayloadItems) = 1

\* C10: the name of a table row is the name itself when it has at most 29
\* characters, else its first 26 characters followed by "..." (29
\* characters); the JSON record of the same object carries the full name.
C10_Truncation ==
    (op \in LabelListOps /\ ~result.failed) =>
        \A i \in DOMAIN response.items :
            LET full == response.items[i].name
                shown == result.text.rows[i].name
            IN  /\ PayloadItems[i].Name = full
                /\ Len(full) <= 29 => shown = full
                /\ Len(full) > 29 =>
                      /\ Len(shown) = 29
                      /\ SubSeq(shown, 1, 26) = SubSeq(full, 1, 26)
                      /\ SubSeq(shown, 27, 29) = <<".", ".", ".">>

\* a pod with a name of 40 characters and one with a name of 29
C10_Witness ==
    /\ op = "ListPods" /\ ~result.failed
    /\ Len(response.items) = 2
    /\ Len(response.items[1].name) = 40
    /\ Len(response.items[2].name) = 29
    /\ Len(result.text.rows[1].name) = 29
    /\ result.text.rows[2].name = response.items[2].name
    /\ Len(PayloadItems[1].Name) = 40

(***************************************************************************)
(* Namespaces (ListNamespaces, GetNamespaceDetails).  The answer to a get  *)
(* is written like the answer to a list: an error, or the one object in    *)
(* items.                                                                  *)
(***************************************************************************)
\* namespaces returned by one namespace list call
MaxNamespaces == 2

\* a get call on one named object
GetCall_Deletes(resource, namespace, name) ==
    [verb |-> "delete", resource |-> resource, namespace |-> namespace, name |-> name]

GetCall(resource, namespace, name) ==
    [verb |-> "get", resource |-> resource, namespace |-> namespace, name |-> name]

\* an error result whose text also names the object asked for
NamedErrorResult(what, name, err) ==
    [error |-> NoError, failed |-> TRUE, what |-> what, name |-> name, message |-> err]

Namespace(name, phase, labels) == [name |-> name, phase |-> phase, labels |-> labels]

NamespaceDetail(ns) == [Name |-> ns.name, Status |-> ns.phase, Labels |-> ns.labels]

ListNamespaces(resp) ==
    IF resp.err # NoError THEN ErrorResult("Error listing namespaces", resp.err)
    ELSE LET nsNames == [i \in DOMAIN resp.items |-> resp.items[i].name]
         IN  [error |-> NoError, failed |-> FALSE, count |-> Len(nsNames),
              namespaces |-> nsNames]

\* the call GetNamespaceDetails issues: a get of the name, or a list
NamespaceCalls_AlwaysList(namespace) == <<ListCall("namespaces", "", "")>>

NamespaceCalls(namespace) ==
    IF namespace # "" THEN <<GetCall("namespaces", "", namespace)>>
    ELSE <<ListCall("namespaces", "", "")>>

\* "Format output": one namespace in full, or a count and an entry for each
NamespaceReport(namespaces) ==
    IF Len(namespaces) = 1
    THEN [error |-> NoError, failed |-> FALSE, single |-> TRUE, details |-> namespaces]
    ELSE [error |-> NoError, failed |-> FALSE, single |-> FALSE,
          count |-> Len(namespaces), details |-> namespaces]

GetNamespaceDetails(namespace, resp) ==
    IF namespace # ""
    THEN IF resp.err # NoError
         THEN NamedErrorResult("Error getting namespace", namespace, resp.err)
         ELSE NamespaceReport(<<NamespaceDetail(resp.items[1])>>)
    ELSE IF resp.err # NoError
         THEN ErrorResult("Error listing namespaces", resp.err)
         ELSE NamespaceReport([i \in DOMAIN resp.items |-> NamespaceDetail(resp.items[i])])

\* the namespaces and arguments the namespace handlers are run on
NamespaceArguments == {"", "default", "missing"}

NamespaceObjects(names) ==
    {Namespace(name, phase, labels) :
        name \in names, phase \in {"Active", "Terminating"},
        labels \in {<<>>, <<"istio-injection=enabled">>}}

NamespaceListResponses ==
    {ListResponse(e, <<>>) : e \in ListErrors}
    \cup {ListResponse(NoError, items) :
            items \in SeqsUpTo(NamespaceObjects({"default", "istio-system", "bookinfo"}),
                               MaxNamespaces)}

\* a get answers with an error or with the namespace of the name asked for
NamespaceGetResponses(name) ==
    {ListResponse(e, <<>>) : e \in ListErrors}
    \cup {ListResponse(NoError, <<ns>>) : ns \in NamespaceObjects({name})}

\* the list_namespaces tool
DoListNamespaces ==
    /\ Idle
    /\ \E resp \in NamespaceListResponses :
        /\ op' = "ListNamespaces"
        /\ args' = [namespace |-> ""]
        /\ calls' = <<ListCall("namespaces", "", "")>>
        /\ response' = resp
        /\ result' = ListNamespaces(resp)
    /\ UNCHANGED <<stream, earlier>>

\* the get_namespace_details tool
DoGetNamespaceDetails ==
    /\ Idle
    /\ \E namespace \in NamespaceArguments :
       \E resp \in IF namespace # "" THEN NamespaceGetResponses(namespace)
                   ELSE NamespaceListResponses :
        /\ op' = "GetNamespaceDetails"
        /\ args' = [namespace |-> namespace]
        /\ calls' = NamespaceCalls(namespace)
        /\ response' = resp
        /\ result' = GetNamespaceDetails(namespace, resp)
    /\ UNCHANGED <<stream, earlier>>

NextNamespaces == DoListNamespaces \/ DoGetNamespaceDetails \/ Respond

SpecNamespaces == Init /\ [][NextNamespaces]_vars

\* the descriptions are the namespaces the client returned, one each, in order
DescribesReturned ==
    /\ ~result.failed
    /\ Len(result.details) = Len(response.items)
    /\ \A i \in DOMAIN response.items :
          /\ result.details[i].Name = response.items[i].name
          /\ result.details[i].Status = response.items[i].phase

\* C11: GetNamespaceDetails with an empty namespace argument issues one
\* list call and describes every namespace the cluster returned; with a
\* name it issues one get of exactly that name and returns exactly one
\* description, or, when the namespace does not exist, a report that names
\* the namespace and carries the not-found error and no description.
C11_NamespaceLookup ==
    op = "GetNamespaceDetails" =>
        /\ Len(calls) = 1
        /\ args.namespace = "" =>
              /\ calls[1].verb = "list" /\ calls[1].resource = "namespaces"
              /\ response.err = NoError => DescribesReturned
        /\ args.namespace # "" =>
              /\ calls[1] = GetCall("namespaces", "", args.namespace)
              /\ response.err = NoError =>
                    /\ DescribesReturned
                    /\ Len(result.details) = 1
                    /\ result.details[1].Name = args.namespace
              /\ IsNotFound(response.err) =>
                    /\ result.failed
                    /\ result.error = NoError
                    /\ result.name = args.namespace
                    /\ IsNotFound(result.message)
                    /\ "details" \notin DOMAIN result

\* a namespace that does not exist is asked for by name
C11_Witness ==
    /\ op = "GetNamespaceDetails"
    /\ args.namespace = "missing"
    /\ IsNotFound(response.err)
    /\ calls = <<GetCall("namespaces", "", "missing")>>
    /\ result.failed

(***************************************************************************)
(* GetPodLogs.  The handler validates its arguments, opens the log stream  *)
(* of the pod under a context, scans the stream line by line until the     *)
(* read returns end-of-file or an error, and formats what it read.         *)
(* stream.read is what the scanner has collected; stream.end is why the    *)
(* scan loop stopped: "eof", "error" (a failed read), "deadline" (the      *)
(* timeout of the context fired) or "cancelled" (the caller cancelled the  *)
(* request).                                                               *)
(***************************************************************************)
\* lines scanned from one log stream (later lines are not recorded)
MaxLines == 2

\* the tail-line count asked for when the Lines argument is not positive
DefaultTailLines == 50

\* an error result for a missing required parameter
ValidationResult(parameter) ==
    [error |-> NoError, failed |-> TRUE, what |-> "Error", required |-> parameter]

\* "Validate required parameters": the missing parameter, or "" when none is
MissingParameter(a) ==
    IF a.namespace = "" THEN "namespace"
    ELSE IF a.podName = "" THEN "pod_name"
    ELSE ""

\* "Set up log options": the request for the log stream
LogOptions_SendsLines(a) ==
    [follow |-> a.follow, previous |-> a.previous, container |-> a.container,
     tailLines |-> a.lines,
     sinceSeconds |-> [set |-> TRUE, value |-> a.sinceSeconds]]

LogOptions(a) ==
    [follow |-> a.follow, previous |-> a.previous, container |-> a.container,
     tailLines |-> IF a.lines > 0 THEN a.lines ELSE DefaultTailLines,
     sinceSeconds |-> IF a.sinceSeconds > 0
                      THEN [set |-> TRUE, value |-> a.sinceSeconds]
                      ELSE [set |-> FALSE, value |-> 0]]

\* the cluster calls of one invocation: none when validation fails
LogCalls_BeforeValidation(a) ==
    <<[verb |-> "logs", resource |-> "pods", namespace |-> a.namespace,
       name |-> a.podName, options |-> LogOptions(a)]>>

LogCalls(a) ==
    IF MissingParameter(a) # "" THEN <<>>
    ELSE <<[verb |-> "logs", resource |-> "pods", namespace |-> a.namespace,
            name |-> a.podName, options |-> LogOptions(a)]>>

\* the context of the stream has a timeout unless the follow flag is set
HasTimeout_Never(a) == FALSE

HasTimeout(a) == ~a.follow

\* scanner.Err() after the scan loop: nil at end-of-file
ScannerError(end) ==
    CASE end = "eof" -> NoError
      [] end = "error" -> "ReadFailed"
      [] end = "deadline" -> "DeadlineExceeded"
      [] end = "cancelled" -> "Canceled"

\* "Format output"
LogsOutput(a, logLines) ==
    IF Len(logLines) = 0
    THEN [error |-> NoError, failed |-> FALSE, none |-> TRUE, pod |-> a.podName,
          namespace |-> a.namespace, container |-> a.container, logs |-> <<>>]
    ELSE [error |-> NoError, failed |-> FALSE, none |-> FALSE, pod |-> a.podName,
          namespace |-> a.namespace, container |-> a.container,
          showing |-> Len(logLines), logs |-> logLines]

\* the result once the scan loop has stopped
LogsResult_Partial(a, logLines, end) == LogsOutput(a, logLines)

LogsResult(a, logLines, end) ==
    IF ScannerError(end) # NoError
    THEN NamedErrorResult("Error reading logs for pod", <<a.podName, a.namespace>>,
                          ScannerError(end))
    ELSE LogsOutput(a, logLines)

\* the arguments, stream errors and log lines GetPodLogs is run on
LogArguments ==
    [namespace : {"", "default"}, podName : {"", "web-1"}, container : {"", "app"},
     lines : {-1, 0, 5}, follow : BOOLEAN, previous : BOOLEAN,
     sinceSeconds : {-1, 0, 60}]

StreamErrors == {"NotFound", "Forbidden"}

LogLines == {"started", "ready"}

\* the get_pod_logs tool is called: it returns at once when a required
\* parameter is missing or the stream cannot be opened, else starts scanning
StartLogs ==
    /\ Idle
    /\ \E a \in LogArguments :
        /\ op' = "GetPodLogs"
        /\ args' = a
        /\ calls' = LogCalls(a)
        /\ IF MissingParameter(a) # ""
           THEN /\ response' = [err |-> NoError]
                /\ result' = ValidationResult(MissingParameter(a))
                /\ stream' = stream
           ELSE \/ \E e \in StreamErrors :
                     /\ response' = [err |-> e]
                     /\ result' = NamedErrorResult("Error getting logs for pod",
                                                   <<a.podName, a.namespace>>, e)
                     /\ stream' = stream
                \/ /\ response' = [err |-> NoError]
                   /\ result' = [error |-> NoError]
                   /\ stream' = [phase |-> "open", read |-> <<>>, end |-> ""]
    /\ UNCHANGED earlier

Scanning == op = "GetPodLogs" /\ stream.phase = "open" /\ stream.end = ""

\* scanner.Scan() returns a line
ReadLine ==
    /\ Scanning
    /\ Len(stream.read) < MaxLines
    /\ \E line \in LogLines : stream' = [stream EXCEPT !.read = Append(@, line)]
    /\ UNCHANGED <<op, args, calls, response, result, earlier>>

\* the stream ends: end-of-file, or a read that fails
StreamEnds ==
    /\ Scanning
    /\ \E end \in {"eof", "error"} : stream' = [stream EXCEPT !.end = end]
    /\ UNCHANGED <<op, args, calls, response, result, earlier>>

\* the timeout of the context fires and the pending read fails
TimeoutFires ==
    /\ Scanning
    /\ HasTimeout(args)
    /\ stream' = [stream EXCEPT !.end = "deadline"]
    /\ UNCHANGED <<op, args, calls, response, result, earlier>>

\* the caller cancels the request and the pending read fails
CallerCancels ==
    /\ Scanning
    /\ stream' = [stream EXCEPT !.end = "cancelled"]
    /\ UNCHANGED <<op, args, calls, response, result, earlier>>

\* the scan loop has stopped: the stream is closed and the result returned
LogsReturn ==
    /\ op = "GetPodLogs"
    /\ stream.phase = "open"
    /\ stream.end # ""
    /\ result' = LogsResult(args, stream.read, stream.end)
    /\ stream' = [stream EXCEPT !.phase = "closed"]
    /\ UNCHANGED <<op, args, calls, response, earlier>>

NextLogs ==
    \/ StartLogs
    \/ ReadLine
    \/ StreamEnds
    \/ TimeoutFires
    \/ CallerCancels
    \/ LogsReturn
    \/ Respond

SpecLogs == Init /\ [][NextLogs]_vars

\* the timer of a context with a timeout fires, and the handler runs on
\* once its read has returned
SpecLogsTimed == SpecLogs /\ WF_vars(TimeoutFires) /\ WF_vars(LogsReturn)

(***************************************************************************)
(* Pod logs.                                                               *)
(***************************************************************************)
LogsCalled == op = "GetPodLogs"

\* C12: GetPodLogs called with an empty namespace or an empty pod name
\* returns a text result naming the missing required parameter, and in
\* that invocation no call is issued to the cluster and no log stream is
\* opened.
C12_ValidationFirst ==
    (LogsCalled /\ (args.namespace = "" \/ args.podName = "")) =>
        /\ calls = <<>>
        /\ stream.phase = "none"
        /\ result.failed
        /\ result.error = NoError
        /\ result.required = IF args.namespace = "" THEN "namespace" ELSE "pod_name"

\* a namespace is given and the pod name is not
C12_Witness ==
    /\ LogsCalled
    /\ args.namespace # "" /\ args.podName = ""
    /\ result.failed
    /\ result.required = "pod_name"
    /\ calls = <<>>

\* C13: the log request asks for as many tail lines as the Lines argument
\* when it is positive and for 50 when it is zero (omitted) or negative;
\* a since-seconds window is part of the request only when SinceSeconds is
\* positive, and then it is the argument.
C13_LogOptions ==
    (LogsCalled /\ calls # <<>>) =>
        LET sent == calls[1].options
        IN  /\ Len(calls) = 1
            /\ args.lines > 0 => sent.tailLines = args.lines
            /\ args.lines <= 0 => sent.tailLines = 50
            /\ sent.sinceSeconds.set <=> args.sinceSeconds > 0
            /\ sent.sinceSeconds.set => sent.sinceSeconds.value = args.sinceSeconds

\* a negative Lines and a negative SinceSeconds
C13_Witness ==
    /\ LogsCalled /\ calls # <<>>
    /\ args.lines < 0 /\ args.sinceSeconds < 0
    /\ calls[1].options.tailLines = 50
    /\ ~calls[1].options.sinceSeconds.set

\* C14: without the follow flag an open log stream is always followed by
\* the return of the handler, even if the stream never ends, because the
\* timeout of its context fires; with the follow flag the timeout never
\* fires, and the handler returns from an open stream only after the
\* stream has ended (end-of-file or a failed read) or the caller has
\* cancelled the request.
C14_BoundedWait ==
    /\ (LogsCalled /\ stream.phase = "open" /\ ~args.follow) ~> (stream.phase = "closed")
    /\ [](LogsCalled /\ args.follow => stream.end # "deadline")
    /\ [][(LogsCalled /\ args.follow /\ stream.phase = "open" /\ stream'.phase = "closed")
            => stream.end \in {"eof", "error", "cancelled"}]_vars

\* a stream read without the follow flag is cut off by the timeout
C14_Witness ==
    /\ LogsCalled
    /\ ~args.follow
    /\ stream.phase = "closed"
    /\ stream.end = "deadline"
    /\ result.failed
    /\ result.message = "DeadlineExceeded"

(***************************************************************************)
(* Pod listing.                                                            *)
(***************************************************************************)
PodsListed == op = "ListPods" /\ ~result.failed

PendingPods == {i \in DOMAIN response.items : response.items[i].phase = "Pending"}

PendingRows == {i \in DOMAIN result.text.rows : result.text.rows[i].status = "Pending"}

\* C20: ListPods emits one row per pod the cluster returned, in order, and
\* a header count equal to the number of pods; a row shows status
\* "Pending" iff the phase of its pod is Pending, so k Pending pods among n
\* give exactly k Pending rows and the count n.
C20_PendingRows ==
    PodsListed =>
        /\ Len(result.text.rows) = Len(response.items)
        /\ \A i \in DOMAIN response.items :
              result.text.rows[i].namespace = response.items[i].namespace
        /\ Len(response.items) > 0 =>
              ~result.text.none /\ result.text.count = Len(response.items)
        /\ PendingRows = PendingPods
        /\ Cardinality(PendingRows) = Cardinality(PendingPods)

\* a Pending pod and a Running pod with all containers ready
C20_Witness ==
    /\ PodsListed
    /\ Len(response.items) = 2
    /\ response.items[1].phase = "Pending"
    /\ response.items[2].phase = "Running"
    /\ result.text.count = 2
    /\ result.text.rows[1].status = "Pending"
    /\ result.text.rows[2].status = "Running"

(***************************************************************************)
(* GetIstioStatus.  An Istio object has, besides its status block, a spec  *)
(* block (spec.found: it is a map; version, profile and updateStrategy     *)
(* are "" when the key is missing or no string), activeRevisionName and    *)
(* the revision counts of status.revisions (found: it is a map).           *)
(***************************************************************************)
IstioSpec(found, version, profile, updateStrategy) ==
    [found |-> found, version |-> version, profile |-> profile,
     updateStrategy |-> updateStrategy]

IstioRevisions(found, total, ready, inUse) ==
    [found |-> found, total |-> total, ready |-> ready, inUse |-> inUse]

Istio(name, namespace, spec, status, activeRevisionName, revisions) ==
    [name |-> name, namespace |-> namespace, spec |-> spec, status |-> status,
     activeRevisionName |-> activeRevisionName, revisions |-> revisions]

parseIstioStatus(istio) ==
    LET hasStatus == istio.status.found
        maps == SelectSeq(WalkedConditions(istio), IsMapEntry)
    IN  [Name |-> istio.name, Namespace |-> istio.namespace,
         Version |-> IF istio.spec.found THEN istio.spec.version ELSE "",
         Profile |-> IF istio.spec.found THEN istio.spec.profile ELSE "",
         UpdateStrategy |-> IF istio.spec.found THEN istio.spec.updateStrategy ELSE "",
         State |-> IF hasStatus /\ istio.status.stateIsString THEN istio.status.state ELSE "",
         ActiveRevisionName |-> IF hasStatus THEN istio.activeRevisionName ELSE "",
         Revisions |-> IF hasStatus /\ istio.revisions.found
                       THEN [Total |-> istio.revisions.total, Ready |-> istio.revisions.ready,
                             InUse |-> istio.revisions.inUse]
                       ELSE [Total |-> 0, Ready |-> 0, InUse |-> 0],
         Conditions |-> [i \in DOMAIN maps |-> ParsedCondition(maps[i])]]

\* the detailed report: the optional lines are printed for non-empty values
formatDetailedIstioStatus(istio) ==
    [Name |-> istio.Name, Namespace |-> istio.Namespace, Version |-> istio.Version,
     State |-> istio.State,
     optional |-> (IF istio.Profile # "" THEN {"Profile"} ELSE {})
                  \cup (IF istio.UpdateStrategy # "" THEN {"Update Strategy"} ELSE {})
                  \cup (IF istio.ActiveRevisionName # "" THEN {"Active Revision"} ELSE {})
                  \cup (IF istio.Revisions.Total > 0 THEN {"Revisions"} ELSE {}),
     Conditions |-> istio.Conditions]

\* one line of the summary list: the first Ready condition is appended
formatSummaryIstioStatus(istio) ==
    LET ready == SelectSeq(istio.Conditions, LAMBDA c : c.type = "Ready")
    IN  [Name |-> istio.Name, Namespace |-> istio.Namespace, Version |-> istio.Version,
         State |-> istio.State,
         Ready |-> IF ready # <<>> THEN <<ready[1].status>> ELSE <<>>]

\* the namespace a named Istio is looked up in
IstioNamespace(a) == IF a.namespace = "" THEN "istio-system" ELSE a.namespace

IstioCalls(a) ==
    IF a.name # "" THEN <<GetCall("istios", IstioNamespace(a), a.name)>>
    ELSE <<ListCall("istios", a.namespace, "")>>

\* a report that what was asked for does not exist
NotFoundResult(what, name, namespace) ==
    [error |-> NoError, failed |-> TRUE, what |-> what, name |-> name,
     namespace |-> namespace]

\* "Format output"
IstioReport_SummaryFromOne(a, istios) ==
    IF Len(istios) = 0
    THEN [error |-> NoError, failed |-> FALSE, format |-> "none", inNamespace |-> a.namespace]
    ELSE [error |-> NoError, failed |-> FALSE, format |-> "summary", count |-> Len(istios),
          entries |-> [i \in DOMAIN istios |-> formatSummaryIstioStatus(istios[i])]]

IstioReport(a, istios) ==
    IF Len(istios) = 0
    THEN [error |-> NoError, failed |-> FALSE, format |-> "none", inNamespace |-> a.namespace]
    ELSE IF Len(istios) = 1
    THEN [error |-> NoError, failed |-> FALSE, format |-> "detailed",
          detail |-> formatDetailedIstioStatus(istios[1])]
    ELSE [error |-> NoError, failed |-> FALSE, format |-> "summary", count |-> Len(istios),
          entries |-> [i \in DOMAIN istios |-> formatSummaryIstioStatus(istios[i])]]

GetIstioStatus(a, resp) ==
    IF a.name # ""
    THEN IF resp.err # NoError
         THEN IF IsNotFound(resp.err)
              THEN NotFoundResult("Istio resource not found", a.name, IstioNamespace(a))
              ELSE NamedErrorResult("Error getting Istio resource", a.name, resp.err)
         ELSE IstioReport(a, <<parseIstioStatus(resp.items[1])>>)
    ELSE IF resp.err # NoError
         THEN IF IsNotFound(resp.err)
              THEN NotFoundResult("Istio CRD not found", "", "")
              ELSE ErrorResult("Error listing Istio resources", resp.err)
         ELSE IstioReport(a, [i \in DOMAIN resp.items |-> parseIstioStatus(resp.items[i])])

\* the Istio objects and arguments GetIstioStatus is run on
IstioArguments == [name : {"", "default"}, namespace : {"", "istio-system", "prod"}]

IstioObjects(names, namespace) ==
    {Istio(name, namespace, spec, shape[1], shape[2], shape[3]) :
        name \in names,
        spec \in {IstioSpec(FALSE, "", "", ""), IstioSpec(TRUE, "v1.24.0", "", ""),
                  IstioSpec(TRUE, "v1.24.0", "ambient", "InPlace")},
        shape \in {<<NoStatus, "", IstioRevisions(FALSE, 0, 0, 0)>>,
                   <<Status(TRUE, <<Condition("Ready", "True", "")>>, TRUE, "Healthy"),
                     "default-v1-24-0", IstioRevisions(TRUE, 1, 1, 1)>>,
                   <<Status(TRUE, <<NonMapEntry, Condition("Reconciled", "True", ""),
                                    Condition("Ready", "False", "NotReady")>>, TRUE, "Error"),
                     "", IstioRevisions(TRUE, 0, 0, 0)>>}}

IstioResponses(a) ==
    {ListResponse(e, <<>>) : e \in ListErrors}
    \cup (IF a.name # ""
          THEN {ListResponse(NoError, <<istio>>) :
                  istio \in IstioObjects({a.name}, IstioNamespace(a))}
          ELSE {ListResponse(NoError, items) :
                  items \in SeqsUpTo(IstioObjects({"default", "canary"}, a.namespace),
                                     MaxItems)})

\* the get_istio_status tool
DoGetIstioStatus ==
    /\ Idle
    /\ \E a \in IstioArguments :
       \E resp \in IstioResponses(a) :
        /\ op' = "GetIstioStatus"
        /\ args' = a
        /\ calls' = IstioCalls(a)
        /\ response' = resp
        /\ result' = GetIstioStatus(a, resp)
    /\ UNCHANGED <<stream, earlier>>

NextIstio == DoGetIstioStatus \/ Respond

SpecIstio == Init /\ [][NextIstio]_vars

(***************************************************************************)
(* Istio status.                                                           *)
(***************************************************************************)
StatusAsked == op = "GetIstioStatus"

\* the report of one instance is the detailed one, of that instance
DetailedOf(istio) ==
    /\ ~result.failed
    /\ result.format = "detailed"
    /\ result.detail.Name = istio.name
    /\ result.detail.Namespace = istio.namespace
    /\ result.detail.State = (IF istio.status.found /\ istio.status.stateIsString
                              THEN istio.status.state ELSE "")

\* C19: with a name GetIstioStatus gets exactly that instance (in the
\* namespace given, istio-system when none is) and returns its detailed
\* report, a "not found" report of its own when the get fails with
\* not-found, and an error report carrying the error for any other
\* failure; without a name it lists the instances, of the namespace when
\* one is given, and returns the detailed report when exactly one is
\* found and a summary list with one entry per instance when more are.
C19_IstioStatus ==
    StatusAsked =>
        /\ Len(calls) = 1
        /\ args.name # "" =>
              /\ calls[1].verb = "get" /\ calls[1].resource = "istios"
              /\ calls[1].name = args.name
              /\ calls[1].namespace = (IF args.namespace = "" THEN "istio-system"
                                       ELSE args.namespace)
              /\ response.err = NoError => DetailedOf(response.items[1])
              /\ IsNotFound(response.err) =>
                    /\ result.failed
                    /\ result.what = "Istio resource not found"
                    /\ result.name = args.name
                    /\ "message" \notin DOMAIN result
              /\ (response.err # NoError /\ ~IsNotFound(response.err)) =>
                    /\ result.failed
                    /\ result.what = "Error getting Istio resource"
                    /\ result.message = response.err
        /\ args.name = "" =>
              /\ calls[1].verb = "list" /\ calls[1].resource = "istios"
              /\ calls[1].namespace = args.namespace
              /\ (response.err = NoError /\ Len(response.items) = 1) =>
                    DetailedOf(response.items[1])
              /\ (response.err = NoError /\ Len(response.items) > 1) =>
                    /\ ~result.failed
                    /\ result.format = "summary"
                    /\ result.count = Len(response.items)
                    /\ Len(result.entries) = Len(response.items)
                    /\ \A i \in DOMAIN response.items :
                          result.entries[i].Name = response.items[i].name

\* two instances are listed in a namespace
C19_Witness ==
    /\ StatusAsked
    /\ args.name = "" /\ args.namespace # ""
    /\ response.err = NoError
    /\ Len(response.items) = 2
    /\ result.format = "summary"
    /\ result.entries[1].Name # result.entries[2].Name

(***************************************************************************)
(* The command-line frontend: the pods, logs, health and status commands.  *)
(* A command initialises the Kubernetes clients, runs its query, prints    *)
(* to standard output and ends the process; log.Fatalf ends it with exit   *)
(* code 1, a return from the command with exit code 0.  The answer of the  *)
(* cluster is response.answer, the outcome of the client initialisation    *)
(* response.init.                                                          *)
(***************************************************************************)
\* log.Fatalf(what, err): the process exits with code 1
CliFatal(what, err, stdout) ==
    [error |-> err, exitCode |-> 1, fatal |-> what, stdout |-> stdout]

\* the command returns: the process exits with code 0
CliDone(stdout) == [error |-> NoError, exitCode |-> 0, fatal |-> "", stdout |-> stdout]

truncateName(s, maxLen) ==
    IF Len(s) <= maxLen THEN s ELSE SubSeq(s, 1, maxLen - 3) \o Ellipsis

\* one printed row of listPodsDirectly
DirectPodRow(pod) ==
    LET readyCount == CountTrue([i \in DOMAIN pod.containerStatuses |->
                                    pod.containerStatuses[i].ready])
        totalCount == Len(pod.containerStatuses)
    IN  [name |-> truncateName(pod.name, NameWidth), namespace |-> pod.namespace,
         status |-> IF pod.phase = "Running" /\ readyCount = totalCount
                    THEN "Running" ELSE pod.phase,
         ready |-> [ready |-> readyCount, total |-> totalCount],
         restarts |-> SumRestarts(pod.containerStatuses)]

listPodsDirectly(namespace, labelSelector, resp) ==
    IF resp.err # NoError THEN CliFatal("Failed to list pods", resp.err, <<>>)
    ELSE IF Len(resp.items) = 0 THEN CliDone([none |-> TRUE, rows |-> <<>>])
    ELSE CliDone([none |-> FALSE, count |-> Len(resp.items),
                  rows |-> [i \in DOMAIN resp.items |-> DirectPodRow(resp.items[i])]])

\* the log request of getPodLogsDirectly: TailLines is set only when lines is
\* positive, and a request without it asks for the whole log
DirectLogCall(a) ==
    [verb |-> "logs", resource |-> "pods", namespace |-> a.namespace, name |-> a.podName,
     options |-> [follow |-> FALSE, previous |-> a.previous, container |-> a.container,
                  tailLines |-> IF a.lines > 0 THEN [set |-> TRUE, value |-> a.lines]
                                ELSE [set |-> FALSE, value |-> 0],
                  sinceSeconds |-> [set |-> FALSE, value |-> 0]]]

\* resp: the error of opening the stream, the lines read and scanner.Err()
getPodLogsDirectly(a, resp) ==
    IF resp.err # NoError THEN CliFatal("Failed to get pod logs", resp.err, <<>>)
    ELSE IF resp.readErr # NoError
    THEN CliFatal("Failed to get pod logs", resp.readErr, resp.lines)
    ELSE CliDone(resp.lines)

\* the handler's error is the only failure checkHealthDirectly reports
checkHealthDirectly(order, responses) ==
    LET handled == CheckSailOperatorHealth(order, responses)
    IN  IF handled.error # NoError
        THEN CliFatal("Failed to check health", handled.error, <<>>)
        ELSE CliDone(handled)

\* the status command asks for the Istio named "default" when no name is given
StatusArguments(names, namespace) ==
    [name |-> IF Len(names) > 0 THEN names[1] ELSE "default", namespace |-> namespace]

getStatusDirectly(a, resp) ==
    LET handled == GetIstioStatus(a, resp)
    IN  IF handled.error # NoError
        THEN CliFatal("Failed to get status", handled.error, <<>>)
        ELSE CliDone(handled)

\* the command lines and cluster answers the commands are run on
InitErrors == {"NoKubeconfig"}

CliResponse(init, answer) == [init |-> init, answer |-> answer]

DirectLogArguments ==
    [namespace : {"default", "istio-system"}, podName : {"web-1"}, container : {"", "app"},
     lines : {-1, 0, 50}, previous : BOOLEAN]

DirectLogAnswers ==
    {[err |-> e, lines |-> <<>>, readErr |-> NoError] : e \in StreamErrors}
    \cup {[err |-> NoError, lines |-> lines, readErr |-> readErr] :
            lines \in SeqsUpTo(LogLines, MaxLines), readErr \in {NoError, "ReadFailed"}}

\* a command whose client initialisation fails issues no call
InitFails(command, a) ==
    /\ Idle
    /\ \E e \in InitErrors :
        /\ op' = command
        /\ args' = a
        /\ calls' = <<>>
        /\ response' = CliResponse(e, <<>>)
        /\ result' = CliFatal(IF command \in {"pods", "logs"}
                               THEN "Failed to initialize Kubernetes client"
                               ELSE "Failed to initialize Kubernetes clients", e, <<>>)
    /\ UNCHANGED <<stream, earlier>>

\* mcp-sail-operator pods
CliPods ==
    \E namespace \in ListNamespaceArguments, labelSelector \in LabelSelectors :
        \/ InitFails("pods", [namespace |-> namespace, labelSelector |-> labelSelector])
        \/ /\ Idle
           /\ \E resp \in ObjectResponses(ListedPods(namespace)) :
                /\ op' = "pods"
                /\ args' = [namespace |-> namespace, labelSelector |-> labelSelector]
                /\ calls' = <<ListCall("pods", namespace, labelSelector)>>
                /\ response' = CliResponse(NoError, resp)
                /\ result' = listPodsDirectly(namespace, labelSelector, resp)
           /\ UNCHANGED <<stream, earlier>>

\* mcp-sail-operator logs <pod-name>
CliLogs ==
    \E a \in DirectLogArguments :
        \/ InitFails("logs", a)
        \/ /\ Idle
           /\ \E resp \in DirectLogAnswers :
                /\ op' = "logs"
                /\ args' = a
                /\ calls' = <<DirectLogCall(a)>>
                /\ response' = CliResponse(NoError, resp)
                /\ result' = getPodLogsDirectly(a, resp)
           /\ UNCHANGED <<stream, earlier>>

\* mcp-sail-operator health
CliHealth ==
    \E namespace \in {""} :
        \/ InitFails("health", [namespace |-> namespace])
        \/ /\ Idle
           /\ \E order \in IterationOrders :
              \E responses \in [Components -> KindResponses(namespace)] :
                /\ op' = "health"
                /\ args' = [namespace |-> namespace]
                /\ calls' = HealthCalls(order, namespace)
                /\ response' = CliResponse(NoError, responses)
                /\ result' = checkHealthDirectly(order, responses)
           /\ UNCHANGED <<stream, earlier>>

\* mcp-sail-operator status [istio-name]
CliStatus ==
    \E names \in {<<>>, <<"canary">>}, namespace \in {"", "sail-operator"} :
        LET a == StatusArguments(names, namespace)
        IN  \/ InitFails("status", a)
            \/ /\ Idle
               /\ \E resp \in IstioResponses(a) :
                    /\ op' = "status"
                    /\ args' = a
                    /\ calls' = IstioCalls(a)
                    /\ response' = CliResponse(NoError, resp)
                    /\ result' = getStatusDirectly(a, resp)
               /\ UNCHANGED <<stream, earlier>>

NextCli == CliPods \/ CliLogs \/ CliHealth \/ CliStatus \/ Respond

SpecCli == Init /\ [][NextCli]_vars

(***************************************************************************)
(* Exit codes of the commands.                                             *)
(***************************************************************************)
CliCommands == {"pods", "logs", "health", "status"}

\* a call the command issued to the cluster failed
QueryFailed ==
    /\ calls # <<>>
    /\ CASE op \in {"pods", "status"} -> response.answer.err # NoError
         [] op = "logs" ->
                response.answer.err # NoError \/ response.answer.readErr # NoError
         [] op = "health" -> \E c \in Components : response.answer[c].err # NoError

\* C18 as stated: each of the four commands exits with a non-zero status
\* whenever its cluster query fails, and with zero only when the query
\* succeeded.
C18_AsStated ==
    (op \in CliCommands /\ QueryFailed) => result.exitCode # 0

\* what the commands do: pods and logs exit with 1 when the query fails;
\* health and status exit with 0 whenever the clients were initialised,
\* whatever the cluster answered
C18_ExitCodes ==
    op \in CliCommands =>
        /\ response.init # NoError => result.exitCode = 1 /\ calls = <<>>
        /\ (response.init = NoError /\ op \in {"pods", "logs"}) =>
              (result.exitCode # 0 <=> QueryFailed)
        /\ (response.init = NoError /\ op \in {"health", "status"}) =>
              result.exitCode = 0

\* the status command gets a permission error and exits with 0
C18_Witness ==
    /\ op = "status"
    /\ response.init = NoError
    /\ response.answer.err = "Forbidden"
    /\ result.exitCode = 0
    /\ result.stdout.failed

(***************************************************************************)
(* TestConnection                                                          *)
(***************************************************************************)
\* Discovery().ServerVersion()
VersionCall == [verb |-> "version", resource |-> "", namespace |-> ""]

\* resp: the error and the version info of the server-version call
TestConnection(resp) ==
    IF resp.err # NoError THEN ErrorResult("Error connecting to Kubernetes", resp.err)
    ELSE [error |-> NoError, status |-> "connected",
          kubernetesVersion |-> resp.version, serverVersion |-> resp.version]

VersionResponses ==
    {[err |-> e, version |-> ""] : e \in {"Forbidden", "Timeout"}}
    \cup {[err |-> NoError, version |-> v] : v \in {"v1.29.0", "v1.31.2"}}

(***************************************************************************)
(* ListSailOperatorResources                                               *)
(***************************************************************************)
crdKeys == {"istio", "istiorevision", "istiocni", "ztunnel"}

crdTypes ==
    [k \in crdKeys |->
        CASE k = "istio" -> [Group |-> "sailoperator.io", Version |-> "v1", Resource |-> "istios"]
          [] k = "istiorevision" -> [Group |-> "sailoperator.io", Version |-> "v1", Resource |-> "istiorevisions"]
          [] k = "istiocni" -> [Group |-> "sailoperator.io", Version |-> "v1", Resource |-> "istiocnis"]
          [] k = "ztunnel" -> [Group |-> "sailoperator.io", Version |-> "v1alpha1", Resource |-> "ztunnels"]]

\* strings.ToLower on the resource arguments the handler is run on
ToLower(s) ==
    CASE s = "Istio" -> "istio"
      [] s = "ZTUNNEL" -> "ztunnel"
      [] s = "Gateway" -> "gateway"
      [] OTHER -> s

AllRequested(resource) == resource = "" \/ resource = "all"

KnownResource(resource) == AllRequested(resource) \/ ToLower(resource) \in crdKeys

\* resourcesToQuery in the order the range visits it: the whole of crdTypes
\* in the map's order, or the one entry stored under the argument as given
ResourcesToQuery(resource, order) ==
    IF AllRequested(resource)
    THEN [i \in DOMAIN order |-> [resourceType |-> order[i], key |-> order[i]]]
    ELSE <<[resourceType |-> resource, key |-> ToLower(resource)]>>

\* a list failure other than not-found ends the loop
StopsLoop_AnyError(resp) == resp.err # NoError

StopsLoop(resp) == resp.err # NoError /\ ~IsNotFound(resp.err)

\* the index of the first query whose failure ends the loop, 0 when none does
FirstStop(queries, responses) ==
    LET stops == {i \in DOMAIN queries : StopsLoop(responses[queries[i].key])}
    IN  IF stops = {} THEN 0 ELSE CHOOSE i \in stops : \A j \in stops : i <= j

SailCalls(namespace, queries, responses) ==
    LET stop == FirstStop(queries, responses)
        made == IF stop = 0 THEN Len(queries) ELSE stop
    IN  [i \in 1..made |-> ListCall(crdTypes[queries[i].key].Resource, namespace, "")]

SailItem(kind, name, namespace, version, status) ==
    [kind |-> kind, name |-> name, namespace |-> namespace,
     spec |-> version, status |-> status]

\* one SailOperatorResource from one listed item
SailResource(item) ==
    [Kind |-> item.kind, Name |-> item.name, Namespace |-> item.namespace,
     Version |-> IF item.spec.found /\ item.spec.isString THEN item.spec.version ELSE "",
     State |-> IF item.status.found /\ item.status.stateIsString
               THEN item.status.state ELSE "",
     Conditions |-> IF item.status.found /\ item.status.condsFound
                    THEN SelectSeq(item.status.conds, IsMapEntry) ELSE <<>>]

\* the resources appended by the queries i..Len(queries); a kind whose list
\* failed with not-found contributes nothing
RECURSIVE Collected(_, _, _)
Collected(queries, responses, i) ==
    IF i > Len(queries) THEN <<>>
    ELSE LET resp == responses[queries[i].key]
             here == IF resp.err # NoError THEN <<>>
                     ELSE [j \in DOMAIN resp.items |-> SailResource(resp.items[j])]
         IN  here \o Collected(queries, responses, i + 1)

\* the text printed for the last condition of the given type
ConditionText(conds, type) ==
    LET of == {i \in DOMAIN conds : conds[i].type = type}
    IN  IF of = {} THEN [shown |-> FALSE, status |-> "", reason |-> ""]
        ELSE LET last == CHOOSE i \in of : \A j \in of : j <= i
             IN  [shown |-> TRUE, status |-> conds[last].status,
                  reason |-> conds[last].reason]

ResourceLine(res) ==
    [name |-> res.Name, namespace |-> res.Namespace, version |-> res.Version,
     state |-> res.State, ready |-> ConditionText(res.Conditions, "Ready"),
     reconciled |-> ConditionText(res.Conditions, "Reconciled")]

\* resourcesByType: the lines of each kind, in the order collected; the
\* order the kinds are printed in is the map's and is not kept here
ResourcesByType(resources) ==
    [kind \in {resources[i].Kind : i \in DOMAIN resources} |->
        LET OfKind(res) == res.Kind = kind
            resList == SelectSeq(resources, OfKind)
        IN  [i \in DOMAIN resList |-> ResourceLine(resList[i])]]

SailReport(a, resources) ==
    IF Len(resources) = 0
    THEN [error |-> NoError, none |-> TRUE, namespace |-> a.namespace,
          type |-> IF AllRequested(a.resource) THEN "" ELSE a.resource]
    ELSE [error |-> NoError, none |-> FALSE, count |-> Len(resources),
          groups |-> ResourcesByType(resources)]

\* order: the order the range visits crdTypes in; responses: the answer of
\* the list call of each key queried
ListSailOperatorResources(a, order, responses) ==
    IF ~KnownResource(a.resource)
    THEN [error |-> NoError, failed |-> TRUE, what |-> "Unknown resource type",
          name |-> a.resource]
    ELSE LET queries == ResourcesToQuery(a.resource, order)
             stop == FirstStop(queries, responses)
         IN  IF stop # 0
             THEN NamedErrorResult("Error listing resources", queries[stop].resourceType,
                                   responses[queries[stop].key].err)
             ELSE SailReport(a, Collected(queries, responses, 1))

\* the arguments and cluster objects the handler is run on
crdOrders ==
    {o \in [1..Cardinality(crdKeys) -> crdKeys] : \A i, j \in DOMAIN o : i # j => o[i] # o[j]}

SailArguments ==
    {[namespace |-> "", resource |-> ""], [namespace |-> "istio-system", resource |-> "all"]}
    \cup [namespace : {"", "istio-system"}, resource : {"istio", "Istio", "ZTUNNEL", "Gateway"}]

KindOfKey(key) ==
    CASE key = "istio" -> "Istio" [] key = "istiorevision" -> "IstioRevision"
      [] key = "istiocni" -> "IstioCNI" [] key = "ztunnel" -> "ZTunnel"

\* an instance with a version, a state and a Ready condition, and one with
\* neither spec nor status
FullItem(key, namespace) ==
    SailItem(KindOfKey(key), "default", namespace,
             [found |-> TRUE, isString |-> TRUE, version |-> "v1.24.0"],
             Status(TRUE, <<Condition("Ready", "True", "")>>, TRUE, "Healthy"))

BareItem(key, namespace) ==
    SailItem(KindOfKey(key), "canary", namespace,
             [found |-> FALSE, isString |-> FALSE, version |-> ""], NoStatus)

SailResponses(key, namespace) ==
    {ListResponse(e, <<>>) : e \in {"NotFound", "Forbidden"}}
    \cup {ListResponse(NoError, <<>>),
          ListResponse(NoError, <<FullItem(key, namespace)>>),
          ListResponse(NoError, <<FullItem(key, namespace), BareItem(key, namespace)>>)}

\* one answer for each key queried
SailAnswers(keys, namespace) ==
    {f \in [keys -> UNION {SailResponses(k, namespace) : k \in keys}] :
        \A k \in keys : f[k] \in SailResponses(k, namespace)}

QueriedKeys(resource) ==
    IF AllRequested(resource) THEN crdKeys
    ELSE IF KnownResource(resource) THEN {ToLower(resource)} ELSE {}

DoTestConnection ==
    /\ Idle
    /\ \E resp \in VersionResponses :
        /\ op' = "TestConnection"
        /\ args' = [namespace |-> ""]
        /\ calls' = <<VersionCall>>
        /\ response' = resp
        /\ result' = TestConnection(resp)
    /\ UNCHANGED <<stream, earlier>>

DoListSailOperatorResources ==
    /\ Idle
    /\ \E a \in SailArguments :
       \E order \in IF AllRequested(a.resource) THEN crdOrders
                    ELSE {CHOOSE o \in crdOrders : TRUE} :
       \E responses \in SailAnswers(QueriedKeys(a.resource), a.namespace) :
        /\ op' = "ListSailOperatorResources"
        /\ args' = a
        /\ calls' = IF KnownResource(a.resource)
                    THEN SailCalls(a.namespace, ResourcesToQuery(a.resource, order), responses)
                    ELSE <<>>
        /\ response' = responses
        /\ result' = ListSailOperatorResources(a, order, responses)
    /\ UNCHANGED <<stream, earlier>>

(***************************************************************************)
(* The server: the thirteen registered tools.                              *)
(***************************************************************************)
NextServer ==
    \/ DoTestConnection
    \/ DoListNamespaces \/ DoGetNamespaceDetails
    \/ DoListPods \/ DoListServices \/ DoListDeployments
    \/ DoListConfigMaps \/ DoListEvents
    \/ StartLogs \/ ReadLine \/ StreamEnds \/ TimeoutFires \/ CallerCancels \/ LogsReturn
    \/ CheckMesh
    \/ DoListSailOperatorResources \/ DoGetIstioStatus \/ CheckHealth
    \/ Respond

SpecServer == Init /\ [][NextServer]_vars

(***************************************************************************)
(* Failures of the cluster client, across the registered tools.            *)
(***************************************************************************)
ToolNames ==
    {"TestConnection", "ListNamespaces", "GetNamespaceDetails", "ListPods",
     "ListServices", "ListDeployments", "ListConfigMaps", "ListEvents",
     "GetPodLogs", "CheckMeshWorkloads", "ListSailOperatorResources",
     "GetIstioStatus", "CheckSailOperatorHealth"}

\* a handler has returned its result to the transport
ToolReturned == op \in ToolNames /\ stream.phase # "open"

\* the tools that issue one call, and the error it failed with
SingleCallTools ==
    ToolNames \ {"GetPodLogs", "ListSailOperatorResources", "CheckSailOperatorHealth"}

\* the result is a text that reports a failure
ReportsFailure == "failed" \in DOMAIN result /\ result.failed /\ "what" \in DOMAIN result

\* the result is a text that reports the failure and quotes the error
QuotesError(err) == ReportsFailure /\ "message" \in DOMAIN result /\ result.message = err

\* the errors of the list calls of a ListSailOperatorResources invocation
\* that were not not-found
SailStopErrors ==
    {response[k].err : k \in {k \in DOMAIN response : StopsLoop(response[k])}}

\* C15: for every registered tool and every failure of a cluster-client call
\* (list, get, version, log stream open, log stream read) the handler returns
\* a nil error and a text result: the text reports the failure, and for the
\* health check the failed kind is a component with status Error or NotFound.
C15_FailuresBecomeText ==
    ToolReturned =>
        /\ result.error = NoError
        /\ DOMAIN result # {"error"}
        /\ (op \in SingleCallTools /\ response.err # NoError) => ReportsFailure
        /\ (op \in SingleCallTools /\ response.err # NoError /\ ~IsNotFound(response.err))
              => QuotesError(response.err)
        /\ (op = "GetPodLogs" /\ response.err # NoError) => QuotesError(response.err)
        /\ (op = "GetPodLogs" /\ stream.phase = "closed" /\ stream.end # "eof")
              => QuotesError(ScannerError(stream.end))
        /\ (op = "ListSailOperatorResources" /\ SailStopErrors # {})
              => \E e \in SailStopErrors : QuotesError(e)
        /\ op = "CheckSailOperatorHealth" =>
              \A c \in Components :
                  response[c].err # NoError =>
                      \E i \in DOMAIN result.components :
                          /\ result.components[i].Component = c
                          /\ result.components[i].Status = StatusOnListError(response[c].err)

\* a log stream that was opened fails while it is read, and the handler has
\* returned the text of the read error
C15_Witness ==
    /\ op = "GetPodLogs"
    /\ stream.phase = "closed"
    /\ stream.end = "error"
    /\ result.error = NoError
    /\ QuotesError("ReadFailed")

(***************************************************************************)
(* The tools and the commands together: what is asked of the cluster.      *)
(***************************************************************************)
NextAll ==
    \/ DoTestConnection
    \/ DoListNamespaces \/ DoGetNamespaceDetails
    \/ DoListPods \/ DoListServices \/ DoListDeployments
    \/ DoListConfigMaps \/ DoListEvents
    \/ StartLogs \/ ReadLine \/ StreamEnds \/ TimeoutFires \/ CallerCancels \/ LogsReturn
    \/ CheckMesh
    \/ DoListSailOperatorResources \/ DoGetIstioStatus \/ CheckHealth
    \/ CliPods \/ CliLogs \/ CliHealth \/ CliStatus
    \/ Respond

SpecAll == Init /\ [][NextAll]_vars

\* the client calls that read: List, Get, ServerVersion and GetLogs(...).Stream
ReadVerbs == {"list", "get", "version", "logs"}

WriteVerbs == {"create", "update", "patch", "delete"}

\* C16: every call a tool invocation or a command issues to the cluster
\* client is a list, a get, a server-version or a log-stream read; no create,
\* update, patch or delete is issued.
C16_ReadOnly ==
    \A i \in DOMAIN calls :
        /\ calls[i].verb \in ReadVerbs
        /\ calls[i].verb \notin WriteVerbs

\* the status command has issued its get of the Istio resource
C16_Witness ==
    /\ op = "status"
    /\ Len(calls) = 1
    /\ calls[1].verb = "get"
    /\ calls[1].resource = "istios"

(***************************************************************************)
(* A session: tool invocations one after another.  A handler is a closure  *)
(* over the cluster client only; earlier records how the previous          *)
(* invocation of the session ended.                                        *)
(***************************************************************************)
\* the result is handed to the transport and the next request is awaited
Reply ==
    /\ ~Idle
    /\ stream.phase # "open"
    /\ op' = "none"
    /\ args' = [namespace |-> ""]
    /\ calls' = <<>>
    /\ response' = <<>>
    /\ result' = [error |-> NoError]
    /\ stream' = NoStream
    /\ earlier' = IF ReportsFailure THEN "failed" ELSE "succeeded"

NextSession ==
    \/ DoTestConnection
    \/ DoListNamespaces \/ DoGetNamespaceDetails
    \/ DoListPods \/ DoListServices \/ DoListDeployments
    \/ DoListConfigMaps \/ DoListEvents
    \/ StartLogs \/ ReadLine \/ StreamEnds \/ TimeoutFires \/ CallerCancels \/ LogsReturn
    \/ CheckMesh
    \/ DoListSailOperatorResources \/ DoGetIstioStatus \/ CheckHealth
    \/ Reply

SpecSession == Init /\ [][NextSession]_vars

\* the kinds in the order their list calls were issued
VisitedComponents ==
    [i \in DOMAIN calls |->
        CHOOSE c \in Components : componentChecks[c].Resource = calls[i].resource]

VisitedKeys ==
    [i \in DOMAIN calls |-> CHOOSE k \in crdKeys : crdTypes[k].Resource = calls[i].resource]

\* the result of the invocation as its handler computes it from the
\* arguments, the calls issued and the answers received
ResultOf ==
    CASE op = "TestConnection" -> TestConnection(response)
      [] op = "ListNamespaces" -> ListNamespaces(response)
      [] op = "GetNamespaceDetails" -> GetNamespaceDetails(args.namespace, response)
      [] op = "ListPods" -> ListPods(args.namespace, args.labelSelector, response)
      [] op = "ListServices" -> ListServices(args.namespace, args.labelSelector, response)
      [] op = "ListDeployments" -> ListDeployments(args.namespace, args.labelSelector, response)
      [] op = "ListConfigMaps" -> ListConfigMaps(args.namespace, args.labelSelector, response)
      [] op = "ListEvents" -> ListEvents(args, response)
      [] op = "CheckMeshWorkloads" -> CheckMeshWorkloads(args.namespace, response)
      [] op = "GetIstioStatus" -> GetIstioStatus(args, response)
      [] op = "CheckSailOperatorHealth" ->
            CheckSailOperatorHealth(VisitedComponents, response)
      [] op = "ListSailOperatorResources" ->
            ListSailOperatorResources(args, VisitedKeys, response)
      [] op = "GetPodLogs" ->
            IF MissingParameter(args) # "" THEN ValidationResult(MissingParameter(args))
            ELSE IF response.err # NoError
            THEN NamedErrorResult("Error getting logs for pod",
                                  <<args.podName, args.namespace>>, response.err)
            ELSE LogsResult(args, stream.read, stream.end)

\* between two requests nothing of the last one is left
NothingKept ==
    /\ args = [namespace |-> ""]
    /\ calls = <<>>
    /\ response = <<>>
    /\ result = [error |-> NoError]
    /\ stream = NoStream

ComponentOf(report, c) ==
    LET i == CHOOSE i \in DOMAIN report.components : report.components[i].Component = c
    IN  report.components[i]

\* two health reports agree on the overall health, the healthy count and
\* each kind's status, reason and issues
SameHealth(r1, r2) ==
    /\ r1.overallHealth = r2.overallHealth
    /\ r1.healthyCount = r2.healthyCount
    /\ r1.totalCount = r2.totalCount
    /\ \A c \in Components :
        /\ ComponentOf(r1, c).Status = ComponentOf(r2, c).Status
        /\ ComponentOf(r1, c).Reason = ComponentOf(r2, c).Reason
        /\ ComponentOf(r1, c).Issues = ComponentOf(r2, c).Issues

\* the order the kinds are written in in componentChecks
DeclaredOrder == <<"Istio", "IstioRevision", "IstioCNI", "ZTunnel">>

\* C21: the result of CheckSailOperatorHealth does not depend on the order
\* the four kinds are queried in: with the same answers of the cluster, every
\* order gives the same overall health, healthy count and, for each kind,
\* the same status, reason and issues.  Every order the kinds are visited
\* in is compared with the declared order, so any two orders agree.
C21_OrderIndependent ==
    op = "CheckSailOperatorHealth" =>
        SameHealth(result, CheckSailOperatorHealth(DeclaredOrder, response))

\* the kinds were not visited in the order Istio first, one list failed,
\* one kind is healthy and the report is Degraded
C21_Witness ==
    /\ op = "CheckSailOperatorHealth"
    /\ calls[1].resource # "istios"
    /\ \E c \in Components : response[c].err = "Forbidden"
    /\ \E c \in Components : ComponentOf(result, c).Status = "Healthy"
    /\ result.overallHealth = "Degraded"

(***************************************************************************)
(* The logs command and the get_pod_logs handler.                          *)
(***************************************************************************)
\* the options GetPodLogs sends for the arguments of the logs command; the
\* command has no follow and no since-seconds flag
HandlerLogOptions(a) ==
    LogOptions([namespace |-> a.namespace, podName |-> a.podName,
                container |-> a.container, lines |-> a.lines, follow |-> FALSE,
                previous |-> a.previous, sinceSeconds |-> 0])

\* the options the command sent are the ones the handler sends, which
\* always sets TailLines
SameLogOptions(sent, handled) ==
    /\ sent.follow = handled.follow
    /\ sent.previous = handled.previous
    /\ sent.container = handled.container
    /\ sent.sinceSeconds = handled.sinceSeconds
    /\ sent.tailLines = [set |-> TRUE, value |-> handled.tailLines]

\* C22 as stated: for the same namespace, pod name, container, line count and
\* previous flag the logs command sends the log options GetPodLogs sends, with
\* the same tail-line count for every line count, zero and negative included.
C22_AsStated ==
    (op = "logs" /\ calls # <<>>) =>
        SameLogOptions(calls[1].options, HandlerLogOptions(args))

\* what the code does: the options agree when the line count is positive;
\* otherwise the handler asks for the last 50 lines and the command for the
\* whole log
C22_TailLines ==
    (op = "logs" /\ calls # <<>>) =>
        /\ args.lines > 0 => SameLogOptions(calls[1].options, HandlerLogOptions(args))
        /\ args.lines <= 0 =>
              /\ ~calls[1].options.tailLines.set
              /\ HandlerLogOptions(args).tailLines = DefaultTailLines

\* the logs command is run with --lines 0 and sends no tail-line count
C22_Witness ==
    /\ op = "logs"
    /\ args.lines = 0
    /\ calls # <<>>
    /\ ~calls[1].options.tailLines.set
    /\ HandlerLogOptions(args).tailLines = 50
    /\ result.exitCode = 0

(***************************************************************************)
(* The namespace of the status command.                                    *)
(***************************************************************************)
\* C23 as stated: when the status command is run without --namespace, the
\* namespace is still empty in the call issued to the cluster, so the Istio
\* resource is looked up cluster-scoped.
C23_AsStated ==
    (op = "status" /\ args.namespace = "" /\ calls # <<>>) => calls[1].namespace = ""

\* what the code does: the command always passes a name, and GetIstioStatus
\* looks a named Istio up in the given namespace, or in istio-system when
\* none is given
C23_LookupNamespace ==
    (op = "status" /\ calls # <<>>) =>
        /\ Len(calls) = 1
        /\ calls[1].verb = "get"
        /\ calls[1].name = args.name
        /\ calls[1].namespace = IF args.namespace = "" THEN "istio-system" ELSE args.namespace

\* the status command, run without a name and without --namespace, has asked
\* for the Istio named default in the namespace istio-system
C23_Witness ==
    /\ op = "status"
    /\ args = [name |-> "default", namespace |-> ""]
    /\ calls = <<GetCall("istios", "istio-system", "default")>>

(***************************************************************************)
(* ListSailOperatorResources on its own.                                   *)
(***************************************************************************)
NextSail == DoListSailOperatorResources \/ Respond

SpecSail == Init /\ [][NextSail]_vars

\* the kinds queried whose list call succeeded
SucceededKeys == {k \in DOMAIN response : response[k].err = NoError}

\* every list call that failed failed with not-found
OnlyNotFound == \A k \in DOMAIN response : response[k].err \in {NoError, "NotFound"}

\* the lines the result has for the instances one list call returned
LinesOf(resp) == [i \in DOMAIN resp.items |-> ResourceLine(SailResource(resp.items[i]))]

\* the number of resources the result lists
ListedCount ==
    IF result.none THEN 0
    ELSE Cardinality(UNION {{<<kind, i>> : i \in DOMAIN result.groups[kind]} :
                                kind \in DOMAIN result.groups})

\* C24: a kind whose list call fails with not-found is skipped and the other
\* kinds are still listed: when every failing kind failed with not-found, the
\* result lists exactly the resources of the kinds whose list call succeeded
\* and the header count is the number of resources listed.
C24_NotFoundSkipped ==
    (op = "ListSailOperatorResources" /\ DOMAIN response # {} /\ OnlyNotFound) =>
        /\ "none" \in DOMAIN result
        /\ Len(calls) = Cardinality(DOMAIN response)
        /\ result.none <=> \A k \in SucceededKeys : response[k].items = <<>>
        /\ ~result.none =>
              /\ DOMAIN result.groups =
                    {KindOfKey(k) : k \in {k \in SucceededKeys : response[k].items # <<>>}}
              /\ \A k \in SucceededKeys :
                    response[k].items # <<>> =>
                        result.groups[KindOfKey(k)] = LinesOf(response[k])
              /\ result.count = ListedCount

\* all kinds are asked for, one list fails with not-found, and the three
\* resources of the other kinds are listed
C24_Witness ==
    /\ op = "ListSailOperatorResources"
    /\ AllRequested(args.resource)
    /\ \E k \in DOMAIN response : response[k].err = "NotFound"
    /\ OnlyNotFound
    /\ ~result.none
    /\ result.count = 3
    /\ ListedCount = 3

(***************************************************************************)
(* The issues and the instance verdicts of checkComponentHealth.           *)
(***************************************************************************)
\* the instances of the answer that were counted unhealthy
UnhealthyInstances == {i \in DOMAIN response.items : ~IsHealthyResource(response.items[i])}

\* the issues of the result that name the instance
IssuesAbout(resource) ==
    {j \in DOMAIN result.Issues : result.Issues[j].subject = ResourceId(resource)}

\* C25: a Healthy result of checkComponentHealth has no issues, and a
\* Degraded or Unhealthy one has at least one issue for each instance that
\* was counted unhealthy.
C25_IssuesMatchStatus ==
    op = "checkComponentHealth" =>
        /\ result.Status = "Healthy" => result.Issues = <<>>
        /\ result.Status \in {"Degraded", "Unhealthy"} =>
              /\ UnhealthyInstances # {}
              /\ \A i \in UnhealthyInstances : IssuesAbout(response.items[i]) # {}
              /\ Len(result.Issues) >= Cardinality(UnhealthyInstances)

\* a Degraded kind: the second of two instances is unhealthy and has an issue
C25_Witness ==
    /\ op = "checkComponentHealth"
    /\ result.Status = "Degraded"
    /\ UnhealthyInstances = {2}
    /\ IssuesAbout(response.items[2]) # {}

\* a condition entry of a critical type whose status is not the string "True"
FailingCondition(c) == c.isMap /\ c.type \in CriticalTypes /\ c.status # "True"

HasFailingCondition(resource) ==
    /\ resource.status.found
    /\ resource.status.condsFound
    /\ \E i \in DOMAIN resource.status.conds : FailingCondition(resource.status.conds[i])

StateIsOther(resource) ==
    resource.status.found /\ resource.status.stateIsString
    /\ resource.status.state # "Healthy"

\* C26: analyzeResourceHealth counts an instance unhealthy iff a condition of
\* type Ready, Reconciled or DependenciesHealthy has a status other than
\* "True" ("Unknown" and a missing status included) or status.state is a
\* string other than "Healthy"; an instance without status block, conditions
\* and state is counted healthy, and the kind's healthy count is the number
\* of instances counted healthy.
C26_UnhealthyInstance ==
    ListedSome =>
        /\ \A i \in DOMAIN response.items :
              LET resource == response.items[i]
                  analysed == analyzeResourceHealth(resource)
              IN  /\ ~analysed.isHealthy <=>
                        (HasFailingCondition(resource) \/ StateIsOther(resource))
                  /\ ~resource.status.found =>
                        analysed = [isHealthy |-> TRUE, issues |-> <<>>, conditions |-> <<>>]
        /\ result.Reason.healthy =
              Cardinality({i \in DOMAIN response.items :
                              ~HasFailingCondition(response.items[i])
                              /\ ~StateIsOther(response.items[i])})
        /\ result.Reason.total = Len(response.items)

\* one instance whose Ready condition is Unknown, and one without a status
\* block: the first is counted unhealthy, the second healthy
C26_Witness ==
    /\ ListedSome
    /\ Len(response.items) = 2
    /\ HasFailingCondition(response.items[1])
    /\ response.items[1].status.conds[1].status = "Unknown"
    /\ ~response.items[2].status.found
    /\ result.Status = "Degraded"
    /\ result.Reason.healthy = 1

(***************************************************************************)
(* The mesh status and the status annotation of an analysed pod.           *)
(***************************************************************************)
\* the mesh status follows the two sidecar flags
StatusFollowsFlags ==
    /\ result.MeshStatus = "In Mesh" <=> (result.SidecarInjected /\ result.SidecarReady)
    /\ result.MeshStatus = "Mesh Issues" <=> (result.SidecarInjected /\ ~result.SidecarReady)
    /\ result.MeshStatus = "Not in Mesh" <=> ~result.SidecarInjected
    /\ result.SidecarReady => result.SidecarInjected

\* C27 as stated: MeshStatus is "In Mesh" iff the sidecar is injected and
\* ready, "Mesh Issues" iff injected and not ready, "Not in Mesh" iff not
\* injected; SidecarReady implies SidecarInjected; and a workload with
\* MeshStatus "Mesh Issues" has at least one issue.
C27_AsStated ==
    PodAnalyzed =>
        /\ StatusFollowsFlags
        /\ result.MeshStatus = "Mesh Issues" => Len(result.Issues) >= 1

\* the pod has a container status entry named istio-proxy
HasProxyStatus(pod) ==
    \E i \in DOMAIN pod.containerStatuses : pod.containerStatuses[i].name = SidecarName

\* what the code does: the status follows the flags, and "Mesh Issues" comes
\* with the issue "Istio sidecar not ready" exactly when the pod has a
\* container status entry for the sidecar
C27_MeshStatus ==
    PodAnalyzed =>
        /\ StatusFollowsFlags
        /\ result.MeshStatus = "Mesh Issues" =>
              (HasProxyStatus(response) <=>
                  \E i \in DOMAIN result.Issues : result.Issues[i] = "Istio sidecar not ready")

\* a pod with the sidecar container, no container status for it and no
\* annotations: "Mesh Issues" without an issue
C27_Witness ==
    /\ PodAnalyzed
    /\ HasProxyContainer(response)
    /\ ~HasProxyStatus(response)
    /\ response.annotations.isNil
    /\ result.MeshStatus = "Mesh Issues"
    /\ result.Issues = <<>>

MissingStatusReported ==
    \E i \in DOMAIN result.Issues : result.Issues[i] = "Missing istio status annotation"

NoStatusAnnotation(pod) == StatusKey \notin DOMAIN pod.annotations.entries

\* C28 as stated: every pod with a container named istio-proxy and no
\* sidecar.istio.io/status annotation gets the issue "Missing istio status
\* annotation", whether it has other annotations or none at all.
C28_AsStated ==
    (PodAnalyzed /\ HasProxyContainer(response) /\ NoStatusAnnotation(response))
        => MissingStatusReported

\* what the code does: the issue is given when the pod has an annotation
\* map, and never when the map is nil
C28_MissingStatus ==
    (PodAnalyzed /\ HasProxyContainer(response) /\ NoStatusAnnotation(response))
        => (MissingStatusReported <=> ~response.annotations.isNil)

\* a pod with a ready sidecar and no annotations at all has no issue
C28_Witness ==
    /\ PodAnalyzed
    /\ HasProxyContainer(response)
    /\ response.annotations.isNil
    /\ result.MeshStatus = "In Mesh"
    /\ result.Issues = <<>>

(***************************************************************************)
(* The STATUS and READY columns of ListPods.                               *)
(***************************************************************************)
\* the cases of the status column that do not depend on readiness
PhaseCases(pod, row) ==
    /\ pod.phase = "Failed" => row.status = "Failed"
    /\ pod.phase = "Succeeded" => row.status = "Completed"
    /\ row.ready.ready <= row.ready.total
    /\ row.ready.total = Len(pod.containerStatuses)

\* C29 as stated: the status is "Running" only for a pod whose phase is
\* Running and whose container statuses are all ready (ready count equal to
\* total count in the READY column); Failed gives "Failed", Succeeded gives
\* "Completed", and the ready count never exceeds the total count.
C29_AsStated ==
    PodsListed =>
        \A i \in DOMAIN response.items :
            LET pod == response.items[i]
                row == result.text.rows[i]
            IN  /\ row.status = "Running" =>
                      (pod.phase = "Running" /\ row.ready.ready = row.ready.total)
                /\ PhaseCases(pod, row)

\* what the code does: the status is "Running" exactly for the pods whose
\* phase is Running, ready or not; the other phases are as stated
C29_StatusColumn ==
    PodsListed =>
        \A i \in DOMAIN response.items :
            LET pod == response.items[i]
                row == result.text.rows[i]
            IN  /\ row.status = "Running" <=> pod.phase = "Running"
                /\ PhaseCases(pod, row)

\* a Running pod with one of two containers ready is listed as "Running"
C29_Witness ==
    /\ PodsListed
    /\ Len(response.items) = 1
    /\ response.items[1].phase = "Running"
    /\ result.text.rows[1].ready = [ready |-> 1, total |-> 2]
    /\ result.text.rows[1].status = "Running"

(***************************************************************************)
(* Lines buffered by GetPodLogs when the read stops.                       *)
(***************************************************************************)
\* the scan loop of a GetPodLogs invocation has stopped and it has returned
LogsReturned == op = "GetPodLogs" /\ stream.phase = "closed"

====
